---- MODULE Spec2Model ----
(***************************************************************************)
(* Constraint orchestration and solve dispatch of                          *)
(* workflow/scripts/solve_network.py (pypsa-usa).                          *)
(*                                                                         *)
(* Strings the code inspects character by character (the activation        *)
(* tokens) are sequences of one-character strings; names the code only     *)
(* compares are TLA+ strings.  A constraint name built by an f-string is   *)
(* the record of the format and the values substituted into it.            *)
(***************************************************************************)
EXTENDS Integers, Sequences, FiniteSets, TLC

VARIABLES
    n,          \* the pypsa.Network: component tables, n.opts, n.config, n.model
    config,     \* snakemake.config, the mapping handed to solve_network
    solving,    \* snakemake.params.solving["options"] (cf_solving), mutated by pop
    opts,       \* the activation tokens handed to solve_network
    snakemake,  \* the module global: params and the tables behind input files
    outcome,    \* how the last call of solve_network / extra_functionality ended
    trace,      \* what the last call of solve_network did, in order
    solves,     \* the (status, condition) of every backend solve the last call launched
    ncalls,     \* number of calls made so far
    args,       \* the arguments of a helper called on its own
    result      \* what the last call of that helper returned

vars == <<n, config, solving, opts, snakemake, outcome, trace, solves, ncalls,
          args, result>>

----------------------------------------------------------------------------
(* Bounds *)

MaxOpts == 2        \* longest activation token list
MaxCalls == 2       \* calls of solve_network / extra_functionality in one run
MaxBuilds == 2      \* model builds of one iterative or rolling-horizon solve

----------------------------------------------------------------------------
(* Python helpers *)

Range(s) == {s[i] : i \in 1..Len(s)}

\* d.get(k, default) / d.pop(k, default) on a mapping held as a function
Get(d, k, default) == IF k \in DOMAIN d THEN d[k] ELSE default

\* the mapping left by d.pop(k, default)
Popped(d, k) == [x \in DOMAIN d \ {k} |-> d[x]]

\* sub in s, for Python strings
Contains(s, sub) ==
    \E i \in 0..(Len(s) - Len(sub)) : SubSeq(s, i + 1, i + Len(sub)) = sub

\* the sum of f[x] over the finite set S
SumOver(S, f) ==
    LET g[T \in SUBSET S] ==
            IF T = {} THEN 0
            ELSE LET x == CHOOSE y \in T : TRUE
                 IN f[x] + g[T \ {x}]
    IN g[S]

Digits == {"0", "1", "2", "3", "4", "5", "6", "7", "8", "9"}

\* whether re.findall(r"[0-9]*\.?[0-9]+", o) is non-empty: the pattern ends in
\* [0-9]+ and every other part is optional, so it matches iff o has a digit
FindallFloat(o) == \E i \in 1..Len(o) : o[i] \in Digits

----------------------------------------------------------------------------
(* Activation tokens, as the __main__ block splits them from the wildcards *)

T_RPS == <<"R", "P", "S">>
T_REM == <<"R", "E", "M">>
T_BAU == <<"B", "A", "U">>
T_SAFE == <<"S", "A", "F", "E">>
T_SAFER == <<"S", "A", "F", "E", "R">>
T_TCT == <<"T", "C", "T">>
T_sector == <<"s", "e", "c", "t", "o", "r">>
T_EQ07 == <<"E", "Q", "0", ".", "7">>
T_EQ05c == <<"E", "Q", "0", ".", "5", "c">>
T_24H == <<"2", "4", "H">>
T_SEQ == <<"S", "E", "Q">>

FamilyTokens == {T_RPS, T_REM, T_BAU, T_SAFE, T_SAFER, T_TCT}
EquityTokens == {T_EQ07, T_EQ05c}
UnknownTokens == {T_24H, T_SEQ}
Tokens == FamilyTokens \cup {T_sector} \cup EquityTokens \cup UnknownTokens

\* the recognized codes: RPS, REM, BAU, SAFE, SAFER, TCT, sector, EQ<number>[c]
Recognized(o) == o \in FamilyTokens \cup {T_sector} \cup EquityTokens

TokenLists(S, k) == UNION {[1..j -> S] : j \in 0..k}

----------------------------------------------------------------------------
(* The network's component tables.  Each table is a function from the      *)
(* component's name (the DataFrame index) to its row.                      *)

\* a planning horizon as pandas holds it: an integer read from a column of
\* numbers, or a string when it comes from a CSV header (DataFrame.melt)
IntYear(y) == [t |-> "int", v |-> y]
StrYear(y) == [t |-> "str", v |-> y]

Y1 == IntYear(2030)
Y2 == IntYear(2040)

Buses ==
    [b \in {"p1", "p2"} |->
        IF b = "p1"
        THEN [country |-> "p1", reeds_state |-> "CA", interconnect |-> "western",
              nerc_reg |-> "WECC", reeds_zone |-> "p1"]
        ELSE [country |-> "p2", reeds_state |-> "TX", interconnect |-> "texas",
              nerc_reg |-> "ERCOT", reeds_zone |-> "p2"]]

\* str.lower() on the interconnect names of the fixtures
Lower(s) ==
    CASE s = "Western" -> "western"
      [] s = "Texas" -> "texas"
      [] s = "Eastern" -> "eastern"
      [] OTHER -> s

Gen(bus, carrier, ext, land_region) ==
    [bus |-> bus, carrier |-> carrier, p_nom_extendable |-> ext, p_nom |-> 10,
     build_year |-> 2020, lifetime |-> 30, land_region |-> land_region,
     p_nom_max_finite |-> TRUE]

\* n.storage_units of a network without storage units
NoStorageUnits == [u \in {} |-> Gen("p1", "battery", FALSE, "")]

\* generator tables: a solar unit at p1 and a gas unit at p2, each extendable or not
GeneratorTables ==
    {[g \in {"g1", "g2"} |->
        IF g = "g1" THEN Gen("p1", "solar", e1, "p1_lr") ELSE Gen("p2", "CCGT", e2, "")]
     : e1 \in BOOLEAN, e2 \in BOOLEAN}

\* link names are the parts the code tests with str.contains / str.endswith
LinkRow(ext) == [p_nom_extendable |-> ext, efficiency |-> 90, carrier |-> "battery"]

LinkTables ==
    {[l \in {<<"p1", "battery charger">>, <<"p1", "battery discharger">>} |-> LinkRow(e)]
     : e \in BOOLEAN}

LineTables == {[l \in {"L1", "L2"} |-> [s_nom_extendable |-> e]] : e \in BOOLEAN}
    \cup {[l \in {"L1", "L2"} |-> [s_nom_extendable |-> (l = "L2")]]}

\* n.loads: one load at each bus
Loads == [l \in {"l1", "l2"} |-> [bus |-> IF l = "l1" THEN "p1" ELSE "p2"]]

\* n.snapshots: the (period, timestep) MultiIndex, two timesteps per period
Snapshots ==
    <<[period |-> Y1, timestep |-> 1], [period |-> Y1, timestep |-> 2],
      [period |-> Y2, timestep |-> 1], [period |-> Y2, timestep |-> 2]>>

\* n.loads_t.p_set: MW of every load at every snapshot
LoadsT ==
    [p_set |-> [i \in 1..Len(Snapshots) |->
                    [l \in {"l1", "l2"} |->
                        IF l = "l1" THEN <<3, 5, 4, 6>>[i] ELSE <<7, 2, 8, 1>>[i]]]]

\* n.stores: the emission stores of two sectors in two states, and a store
\* that holds no emissions
Stores ==
    [x \in {<<"CA", "res", "-co2">>, <<"CA", "res", "-ch4">>, <<"CA", "trn", "-co2">>,
            <<"TX", "res", "-co2">>, <<"TX", "trn", "-ch4">>, <<"CA", "res", "-heat">>}
        |-> [e_nom_extendable |-> TRUE]]

Carriers == [c \in {"solar", "CCGT"} |-> [co2_emissions |-> IF c = "CCGT" THEN 4 ELSE 0]]

\* snakemake.config, by the entries extra_functionality and the families read:
\*   electricity         the keys present in config["electricity"]
\*   BAU_mincapacities   the carriers of config["electricity"]["BAU_mincapacities"]
\*   operational_reserve config["electricity"]["operational_reserve"]["activate"]
\*   interface_transmission_limits  config["lines"]["interface_transmission_limits"]
\*   split_urban_rural   config["sector"]["service_sector"]["split_urban_rural"]
\*   co2_policy          config["sector"]["co2"]["policy"] is set
\*   force_imports_exports  config["sector"]["natural_gas"]["force_imports_exports"]
ElectricityKeys ==
    {"portfolio_standards", "regional_Co2_limits", "BAU_mincapacities",
     "SAFE_reservemargin", "SAFE_regional_reservemargins",
     "technology_capacity_targets", "transmission_interface_limits"}

Config(reserve, itl, split, co2, ng) ==
    [electricity |-> ElectricityKeys, foresight |-> "perfect",
     BAU_mincapacities |-> {"solar", "CCGT"},
     operational_reserve |-> reserve, interface_transmission_limits |-> itl,
     split_urban_rural |-> split, co2_policy |-> co2,
     force_imports_exports |-> ng]

NoConfig == Config(FALSE, FALSE, FALSE, FALSE, FALSE)

\* the configurations of the runs: every optional entry off, one on, all on
Configs ==
    {NoConfig, Config(TRUE, TRUE, TRUE, TRUE, TRUE)}
    \cup {Config(k = 1, k = 2, k = 3, k = 4, k = 5) : k \in 1..5}

\* no helper has been called on its own
NoArgs == [helper |-> ""]
NoResult == [called |-> FALSE]

\* the linopy model of one build: registered constraints and variables, with
\* the families called on it so far and the exception that ended the build
NewModel == [cons |-> <<>>, vars |-> {}, calls |-> <<>>, err |-> ""]

\* the orders a DataFrame index can hold the names of a table in
IndexOrders(table) ==
    {s \in [1..Cardinality(DOMAIN table) -> DOMAIN table] : Range(s) = DOMAIN table}

\* n.links.index: the order the links were added in
LinksIndex(links) == CHOOSE s \in IndexOrders(links) : TRUE

Network(generators, links, lines) ==
    [buses |-> Buses, generators |-> generators, links |-> links, lines |-> lines,
     links_index |-> LinksIndex(links),
     storage_units |-> NoStorageUnits, stores |-> Stores, carriers |-> Carriers,
     loads |-> Loads, loads_t |-> LoadsT, snapshots |-> Snapshots,
     investment_periods |-> <<Y1, Y2>>,
     attached |-> FALSE, opts |-> <<>>, config |-> NoConfig, model |-> NewModel]

----------------------------------------------------------------------------
(* The optimization backend's registry (linopy.Model)                      *)

\* an f-string name: the format, the strings (as sequences of parts), the
\* planning horizon and the row number substituted into it
Name(fmt, a, b, y, i) == [fmt |-> fmt, a |-> a, b |-> b, y |-> y, i |-> i]
Static(fmt) == Name(fmt, <<>>, <<>>, Y1, 0)

Raise(m, e) == IF m.err # "" THEN m ELSE [m EXCEPT !.err = e]

ConNames(m) == {m.cons[k].name : k \in 1..Len(m.cons)}

DuplicateError == "ValueError: already assigned to model"

\* a constraint whose expression the model does not follow
NoExpr == [followed |-> FALSE, operands |-> <<>>]

\* n.model.add_constraints(expr, name=name): a name already assigned is an
\* error.  expr.operands are the index sets the expression was built over.
add_constraints_of(m, expr, name, family) ==
    IF m.err # "" THEN m
    ELSE IF name \in ConNames(m) THEN Raise(m, DuplicateError)
    ELSE [m EXCEPT !.cons = Append(@, [name |-> name, family |-> family, expr |-> expr])]

add_constraints(m, name, family) == add_constraints_of(m, NoExpr, name, family)

\* n.model.add_variables(..., name=name)
add_variables(m, name) ==
    IF m.err # "" THEN m
    ELSE IF name \in m.vars THEN Raise(m, DuplicateError)
    ELSE [m EXCEPT !.vars = @ \cup {name}]

\* entering a family: recorded unless an earlier exception already ended the build
Enter(m, family) == IF m.err # "" THEN m ELSE [m EXCEPT !.calls = Append(@, family)]

\* Series.unique(): the distinct values in order of first appearance
Unique(s) ==
    LET f[i \in 0..Len(s)] ==
            IF i = 0 THEN <<>>
            ELSE IF s[i] \in Range(f[i - 1]) THEN f[i - 1] ELSE Append(f[i - 1], s[i])
    IN f[Len(s)]

----------------------------------------------------------------------------
(* Region resolver and component filter *)

get_region_buses(net, region_list) ==
    {b \in DOMAIN net.buses :
        \/ net.buses[b].country \in region_list
        \/ net.buses[b].reeds_state \in region_list
        \/ Lower(net.buses[b].interconnect) \in region_list
        \/ net.buses[b].nerc_reg \in region_list
        \/ "all" \in region_list}

\* n.get_active_assets(c, period): built by the period and not yet retired
get_active_assets(row, period) ==
    /\ row.build_year <= period.v
    /\ period.v < row.build_year + row.lifetime

\* the extendability test of filter_components left out
filter_components_any_extendability(component, planning_horizon, carrier_list, region_buses, extendable) ==
    {c \in DOMAIN component :
        /\ get_active_assets(component[c], planning_horizon)
        /\ component[c].carrier \in carrier_list
        /\ component[c].bus \in region_buses}

filter_components(component, planning_horizon, carrier_list, region_buses, extendable) ==
    {c \in DOMAIN component :
        /\ get_active_assets(component[c], planning_horizon)
        /\ component[c].carrier \in carrier_list
        /\ component[c].bus \in region_buses
        /\ component[c].p_nom_extendable = extendable}

AnyExtendable(table) == \E c \in DOMAIN table : table[c].p_nom_extendable

----------------------------------------------------------------------------
(* The tables behind the policy files and snakemake.input, and              *)
(* snakemake.params.planning_horizons.  Percentages are in percent.         *)

Snakemake ==
    [planning_horizons |-> {Y1, Y2},
     \* config["electricity"]["portfolio_standards"]
     portfolio_standards |->
        <<[name |-> "user_west", pct |-> 50, planning_horizon |-> Y1,
           region |-> {"western"}, carrier |-> {"solar"}],
          [name |-> "user_off", pct |-> 0, planning_horizon |-> Y1,
           region |-> {"all"}, carrier |-> {"solar"}]>>,
     \* snakemake.input.rps_reeds: columns st, t, rps_all
     rps_reeds |-> <<[st |-> "CA", t |-> Y2, rps_all |-> 60]>>,
     \* snakemake.input.ces_reeds after melt(id_vars="st"): the year is a header
     ces_reeds |-> <<[st |-> "CA", planning_horizon |-> StrYear(2040), pct |-> 80]>>,
     \* config["electricity"]["regional_Co2_limits"], index_col=[0]
     regional_Co2_limits |->
        <<[name |-> "texas_cap", planning_horizon |-> Y1, regions |-> {"TX"},
           limit |-> 100]>>,
     \* config["electricity"]["SAFE_regional_reservemargins"], index_col=[0]
     regional_prm |->
        <<[name |-> "nowhere", planning_horizon |-> Y1, region |-> {"NY"}, prm |-> 15]>>,
     \* snakemake.input.safer_reeds, index_col=[0] (the NERC region)
     safer_reeds |-> <<[name |-> "SERC", planning_horizon |-> Y1, prm |-> 12]>>,
     \* config["electricity"]["technology_capacity_targets"]
     technology_capacity_targets |->
        <<[planning_horizon |-> Y1, region |-> {"all"}, carrier |-> {"solar"},
           min_nan |-> FALSE, min |-> 20, max_nan |-> TRUE, max |-> 0]>>,
     \* snakemake.input.flowgates and config["electricity"]["transmission_interface_limits"]
     flowgates |->
        <<[interface |-> "p1_p2", r |-> {"p1"}, rr |-> {"p2"}, MW_f0 |-> 5, MW_r0 |-> 5]>>,
     user_limits |-> <<>>,
     \* config["sector"]["co2"]["policy"]: columns sector, state, year, co2_limit_mmt
     co2_policy |->
        <<[sector |-> "all", state |-> "USA", year |-> Y1, co2_limit_mmt |-> 3]>>,
     \* eia.Trade(...).get_data() after formatting: link -> rhs
     ng_domestic_exports |-> <<>>,
     ng_international_exports |-> <<>>]

----------------------------------------------------------------------------
(* Constraint families.  Each takes the network, the configuration, the    *)
(* tables and the model so far, and gives the model after it.              *)

\* the names a DataFrame.query("... @name ...") inside a family can resolve:
\* the module's globals (the family's own locals are n, config and what it
\* has assigned so far)
ModuleGlobals ==
    {"logging", "re", "Optional", "np", "pd", "pypsa", "xr", "yaml",
     "configure_logging", "is_transport_model", "update_config_from_wildcards",
     "update_config_with_sector_opts", "NG_MWH_2_MMCF", "Trade", "get_as_dense",
     "logger", "snakemake", "opts", "solve_opts", "n"}

\* config["electricity"][key]
MissingKey(cfg, key) == key \notin cfg.electricity

rps_carriers ==
    {"onwind", "offwind", "offwind_floating", "solar", "hydro", "geothermal",
     "biomass", "EGS"}

ces_carriers == rps_carriers \cup {"nuclear"}

\* n.buses.groupby(attr)["reeds_zone"] joined: the zones of every group
Memberships(net, attr) ==
    [s \in {net.buses[b][attr] : b \in DOMAIN net.buses} |->
        {net.buses[b].reeds_zone : b \in {x \in DOMAIN net.buses : net.buses[x][attr] = s}}]

\* the rows with pct <= 0 kept
PortfolioStandards_keep_nonpositive(net, sm) ==
    LET state_memberships == Memberships(net, "reeds_state")
        rps_rows == SelectSeq(sm.rps_reeds, LAMBDA r : r.st \in DOMAIN state_memberships)
        ces_rows == SelectSeq(sm.ces_reeds, LAMBDA r : r.st \in DOMAIN state_memberships)
        rps == [i \in 1..Len(rps_rows) |->
                    [name |-> rps_rows[i].st, pct |-> rps_rows[i].rps_all,
                     planning_horizon |-> rps_rows[i].t,
                     region |-> state_memberships[rps_rows[i].st],
                     carrier |-> rps_carriers]]
        ces == [i \in 1..Len(ces_rows) |->
                    [name |-> ces_rows[i].st, pct |-> ces_rows[i].pct,
                     planning_horizon |-> ces_rows[i].planning_horizon,
                     region |-> state_memberships[ces_rows[i].st],
                     carrier |-> ces_carriers]]
        all == sm.portfolio_standards \o rps \o ces
    IN SelectSeq(all, LAMBDA r : r.planning_horizon \in sm.planning_horizons)

\* the concatenated portfolio standards, filtered by pct and planning horizon
PortfolioStandards(net, sm) ==
    LET state_memberships == Memberships(net, "reeds_state")
        rps_rows == SelectSeq(sm.rps_reeds, LAMBDA r : r.st \in DOMAIN state_memberships)
        ces_rows == SelectSeq(sm.ces_reeds, LAMBDA r : r.st \in DOMAIN state_memberships)
        rps == [i \in 1..Len(rps_rows) |->
                    [name |-> rps_rows[i].st, pct |-> rps_rows[i].rps_all,
                     planning_horizon |-> rps_rows[i].t,
                     region |-> state_memberships[rps_rows[i].st],
                     carrier |-> rps_carriers]]
        ces == [i \in 1..Len(ces_rows) |->
                    [name |-> ces_rows[i].st, pct |-> ces_rows[i].pct,
                     planning_horizon |-> ces_rows[i].planning_horizon,
                     region |-> state_memberships[ces_rows[i].st],
                     carrier |-> ces_carriers]]
        all == sm.portfolio_standards \o rps \o ces
        positive == SelectSeq(all, LAMBDA r : r.pct > 0)
    IN SelectSeq(positive, LAMBDA r : r.planning_horizon \in sm.planning_horizons)

\* n.loads_t.p_set.loc[planning_horizon, n.loads.bus.isin(region_buses.index)]
\* .sum().sum()
RegionDemand(net, planning_horizon, region_buses) ==
    LET sns == {i \in 1..Len(net.snapshots) : net.snapshots[i].period = planning_horizon}
        loads == {l \in DOMAIN net.loads : net.loads[l].bus \in region_buses}
    IN SumOver(sns, [i \in sns |-> SumOver(loads, [l \in loads |-> net.loads_t.p_set[i][l]])])

\* an empty region taken as an error instead of skipped
RPSRow_empty_region_raises(net, pct_lim, m) ==
    LET region_buses == get_region_buses(net, pct_lim.region)
        region_gens == {g \in DOMAIN net.generators : net.generators[g].bus \in region_buses}
        region_gens_eligible == {g \in region_gens : net.generators[g].carrier \in pct_lim.carrier}
    IN IF region_buses = {} THEN Raise(m, "KeyError")
       ELSE IF region_gens = {} THEN m
       ELSE add_constraints_of(m,
                [followed |-> TRUE, operands |-> <<region_gens_eligible>>,
                 lhs |-> region_gens_eligible, period |-> pct_lim.planning_horizon,
                 sense |-> ">=",
                 rhs |-> pct_lim.pct * RegionDemand(net, pct_lim.planning_horizon, region_buses)],
                Name("GlobalConstraint-{a}_{y}_rps_limit", <<pct_lim.name>>, <<>>,
                     pct_lim.planning_horizon, 0),
                "RPS")

\* the generators of the left-hand side taken from the whole region
RPSRow_all_region_gens(net, pct_lim, m) ==
    LET region_buses == get_region_buses(net, pct_lim.region)
        region_gens == {g \in DOMAIN net.generators : net.generators[g].bus \in region_buses}
    IN IF region_buses = {} THEN m
       ELSE IF region_gens = {} THEN m
       ELSE add_constraints_of(m,
                [followed |-> TRUE, operands |-> <<region_gens>>,
                 lhs |-> region_gens, period |-> pct_lim.planning_horizon,
                 sense |-> ">=",
                 rhs |-> pct_lim.pct * RegionDemand(net, pct_lim.planning_horizon, region_buses)],
                Name("GlobalConstraint-{a}_{y}_rps_limit", <<pct_lim.name>>, <<>>,
                     pct_lim.planning_horizon, 0),
                "RPS")

RPSRow(net, pct_lim, m) ==
    LET region_buses == get_region_buses(net, pct_lim.region)
        region_gens == {g \in DOMAIN net.generators : net.generators[g].bus \in region_buses}
        region_gens_eligible == {g \in region_gens : net.generators[g].carrier \in pct_lim.carrier}
    IN IF region_buses = {} THEN m
       ELSE IF region_gens = {} THEN m
       ELSE add_constraints_of(m,
                [followed |-> TRUE, operands |-> <<region_gens_eligible>>,
                 lhs |-> region_gens_eligible, period |-> pct_lim.planning_horizon,
                 sense |-> ">=",
                 rhs |-> pct_lim.pct * RegionDemand(net, pct_lim.planning_horizon, region_buses)],
                Name("GlobalConstraint-{a}_{y}_rps_limit", <<pct_lim.name>>, <<>>,
                     pct_lim.planning_horizon, 0),
                "RPS")

add_RPS_constraints(net, cfg, sm, m) ==
    IF MissingKey(cfg, "portfolio_standards") THEN Raise(m, "KeyError")
    ELSE LET rows == PortfolioStandards(net, sm)
             f[i \in 0..Len(rows)] ==
                 IF i = 0 THEN m
                 ELSE RPSRow(net, rows[i], f[i - 1])
         IN f[Len(rows)]

REMRow(net, emmission_lim, m) ==
    LET region_buses == get_region_buses(net, emmission_lim.regions)
        emissions == {c \in DOMAIN net.carriers : net.carriers[c].co2_emissions # 0}
        region_gens == {g \in DOMAIN net.generators : net.generators[g].bus \in region_buses}
        region_gens_em == {g \in region_gens : net.generators[g].carrier \in emissions}
    IN IF region_buses = {} \/ region_gens_em = {} THEN m
       ELSE add_constraints(m,
                Name("GlobalConstraint-{a}_{y}co2_limit", <<emmission_lim.name>>, <<>>,
                     emmission_lim.planning_horizon, 0),
                "REM")

add_regional_co2limit(net, cfg, sm, m) ==
    IF MissingKey(cfg, "regional_Co2_limits") THEN Raise(m, "KeyError")
    ELSE LET rows == SelectSeq(sm.regional_Co2_limits,
                               LAMBDA r : r.planning_horizon \in sm.planning_horizons)
             f[i \in 0..Len(rows)] ==
                 IF i = 0 THEN m
                 ELSE REMRow(net, rows[i], f[i - 1])
         IN f[Len(rows)]

add_BAU_constraints(net, cfg, m) ==
    LET ext_i == {g \in DOMAIN net.generators : net.generators[g].p_nom_extendable}
        lhs == {net.generators[g].carrier : g \in ext_i}
        index == cfg.BAU_mincapacities \cap lhs
    IN IF MissingKey(cfg, "BAU_mincapacities") THEN Raise(m, "KeyError")
       ELSE add_constraints_of(m,
                [followed |-> TRUE, operands |-> <<lhs, index>>,
                 lhs |-> lhs, sense |-> ">=", rhs |-> index],
                Static("bau_mincaps"), "BAU")

\* n.generators.query("carrier in @conventional_carriers & p_nom_extendable")
QueryConventional(m, locals) ==
    IF "conventional_carriers" \in ModuleGlobals \cup locals THEN m
    ELSE Raise(m, "UndefinedVariableError")

add_SAFE_constraints(net, cfg, m) ==
    IF MissingKey(cfg, "SAFE_reservemargin") THEN Raise(m, "KeyError")
    ELSE add_constraints(
            QueryConventional(m, {"n", "config", "peakdemand", "margin", "reserve_margin"}),
            Static("safe_mintotalcap"), "SAFE")

\* the concatenated regional reserve margins, filtered by planning horizon
RegionalPRM(net, sm) ==
    LET NERC_memberships == Memberships(net, "nerc_reg")
        reeds_rows == SelectSeq(sm.safer_reeds, LAMBDA r : r.name \in DOMAIN NERC_memberships)
        reeds == [i \in 1..Len(reeds_rows) |->
                    [name |-> reeds_rows[i].name,
                     planning_horizon |-> reeds_rows[i].planning_horizon,
                     region |-> NERC_memberships[reeds_rows[i].name],
                     prm |-> reeds_rows[i].prm]]
    IN SelectSeq(sm.regional_prm \o reeds,
                 LAMBDA r : r.planning_horizon \in sm.planning_horizons)

SAFERRow(net, prm, m) ==
    LET region_buses == get_region_buses(net, prm.region)
    IN IF region_buses = {} THEN m
       ELSE add_constraints(
                QueryConventional(m, {"n", "config", "regional_prm", "reeds_prm",
                                      "NERC_memberships", "idx", "prm", "region_list",
                                      "region_buses", "peakdemand", "margin",
                                      "planning_reserve", "region_gens"}),
                Name("GlobalConstraint-{a}_{y}_PRM", <<prm.name>>, <<>>,
                     prm.planning_horizon, 0),
                "SAFER")

add_SAFER_constraints(net, cfg, sm, m) ==
    IF MissingKey(cfg, "SAFE_regional_reservemargins") THEN Raise(m, "KeyError")
    ELSE LET rows == RegionalPRM(net, sm)
             f[i \in 0..Len(rows)] ==
                 IF i = 0 THEN m
                 ELSE SAFERRow(net, rows[i], f[i - 1])
         IN f[Len(rows)]

\* the rows of a table with their DataFrame index (the row number from 0)
Indexed(rows) == [i \in 1..Len(rows) |-> [idx |-> i - 1, row |-> rows[i]]]

\* the existing capacity selected over every bus of the network
TCTSelections_existing_everywhere(net, target) ==
    LET region_buses == get_region_buses(net, target.region)
    IN [region_buses |-> region_buses,
        lhs_gens |-> filter_components(net.generators, target.planning_horizon,
                                       target.carrier, region_buses, TRUE),
        rhs_g_existing |-> filter_components(net.generators, target.planning_horizon,
                                             target.carrier, DOMAIN net.buses, FALSE),
        lhs_storage |-> filter_components(net.storage_units, target.planning_horizon,
                                          target.carrier, region_buses, TRUE),
        rhs_s_existing |-> filter_components(net.storage_units, target.planning_horizon,
                                             target.carrier, DOMAIN net.buses, FALSE)]

\* the four calls of filter_components for one target
TCTSelections(net, target) ==
    LET region_buses == get_region_buses(net, target.region)
    IN [region_buses |-> region_buses,
        lhs_gens |-> filter_components(net.generators, target.planning_horizon,
                                       target.carrier, region_buses, TRUE),
        rhs_g_existing |-> filter_components(net.generators, target.planning_horizon,
                                             target.carrier, region_buses, FALSE),
        lhs_storage |-> filter_components(net.storage_units, target.planning_horizon,
                                          target.carrier, region_buses, TRUE),
        rhs_s_existing |-> filter_components(net.storage_units, target.planning_horizon,
                                             target.carrier, region_buses, FALSE)]

\* the existing capacity left out of the right-hand side
TCTExpr_without_existing(net, sel, sense, bound) ==
    [followed |-> TRUE,
     operands |-> SelectSeq(<<sel.lhs_gens, sel.lhs_storage>>, LAMBDA x : x # {}),
     lhs_gens |-> sel.lhs_gens, lhs_storage |-> sel.lhs_storage,
     existing_gens |-> sel.rhs_g_existing, existing_storage |-> sel.rhs_s_existing,
     sense |-> sense, rhs |-> bound]

\* lhs = (lhs_g + lhs_s).sum() against bound - rhs_base, where rhs_base =
\* rhs_g_existing + rhs_s_existing; lhs_g and lhs_s are built only from a
\* non-empty selection
TCTExpr(net, sel, sense, bound) ==
    [followed |-> TRUE,
     operands |-> SelectSeq(<<sel.lhs_gens, sel.lhs_storage>>, LAMBDA x : x # {}),
     lhs_gens |-> sel.lhs_gens, lhs_storage |-> sel.lhs_storage,
     existing_gens |-> sel.rhs_g_existing, existing_storage |-> sel.rhs_s_existing,
     sense |-> sense,
     rhs |-> bound
             - (SumOver(sel.rhs_g_existing,
                        [g \in sel.rhs_g_existing |-> net.generators[g].p_nom])
                + SumOver(sel.rhs_s_existing,
                          [u \in sel.rhs_s_existing |-> net.storage_units[u].p_nom]))]

TCTRow(net, idx, target, m) ==
    LET sel == TCTSelections(net, target)
        m_min == IF target.min_nan THEN m
                 ELSE add_constraints_of(m, TCTExpr(net, sel, ">=", target.min),
                        Name("GlobalConstraint-{i}_{y}_min", <<>>, <<>>,
                             target.planning_horizon, idx), "TCT")
    IN IF sel.region_buses = {} \/ (sel.lhs_gens = {} /\ sel.lhs_storage = {}) THEN m
       ELSE IF target.max_nan THEN m_min
       ELSE add_constraints_of(m_min, TCTExpr(net, sel, "<=", target.max),
                Name("GlobalConstraint-{i}_{y}_max", <<>>, <<>>,
                     target.planning_horizon, idx), "TCT")

add_technology_capacity_target_constraints(net, cfg, sm, m) ==
    IF MissingKey(cfg, "technology_capacity_targets") THEN Raise(m, "KeyError")
    ELSE LET rows == SelectSeq(Indexed(sm.technology_capacity_targets),
                               LAMBDA r : r.row.planning_horizon \in sm.planning_horizons)
             f[i \in 0..Len(rows)] ==
                 IF i = 0 THEN m
                 ELSE TCTRow(net, rows[i].idx, rows[i].row, f[i - 1])
         IN f[Len(rows)]

add_operational_reserve_margin(net, cfg, m) ==
    add_constraints(
        add_constraints(add_variables(m, "Generator-r"), Static("reserve_margin"),
                        "operational_reserve"),
        Static("Generator-p-reserve-upper"), "operational_reserve")

ITLRow(net, interface, m) ==
    LET zone0_buses == {b \in DOMAIN net.buses : net.buses[b].country \in interface.r}
        zone1_buses == {b \in DOMAIN net.buses : net.buses[b].country \in interface.rr}
    IN IF zone0_buses = {} \/ zone1_buses = {} THEN m
       ELSE add_constraints(
                add_constraints(m, Name("ITL_{a}_pos", <<interface.interface>>, <<>>, Y1, 0),
                                "interface_limits"),
                Name("ITL_{a}_neg", <<interface.interface>>, <<>>, Y1, 0),
                "interface_limits")

add_interface_limits(net, cfg, sm, m) ==
    IF MissingKey(cfg, "transmission_interface_limits") THEN Raise(m, "KeyError")
    ELSE LET rows == sm.flowgates \o sm.user_limits
             f[i \in 0..Len(rows)] ==
                 IF i = 0 THEN m
                 ELSE ITLRow(net, rows[i], f[i - 1])
         IN f[Len(rows)]

\* name.endswith(suffix) on a name held as its parts
EndsWith(name, suffix) ==
    /\ Len(name) >= Len(suffix)
    /\ SubSeq(name, Len(name) - Len(suffix) + 1, Len(name)) = suffix

LinksEndingWith(net, suffix) == {l \in DOMAIN net.links : EndsWith(l, suffix)}

add_hp_capacity_constraint(net, hp_type, m) ==
    LET heating_hps == LinksEndingWith(net, <<hp_type>>)
        cooling_hps == LinksEndingWith(net, <<hp_type, "cooling">>)
    IN IF heating_hps = {} THEN m
       ELSE IF Cardinality(heating_hps) # Cardinality(cooling_hps)
            THEN Raise(m, "AssertionError")
       ELSE add_constraints(m, Name("Link-{a}_cooling_capacity", <<hp_type>>, <<>>, Y1, 0),
                            "heat_pump")

add_hp_generation_constraint(net, hp_type, m) ==
    IF LinksEndingWith(net, <<hp_type>>) = {} THEN m
    ELSE add_constraints(m, Name("Link-{a}_cooling_generation", <<hp_type>>, <<>>, Y1, 0),
                         "heat_pump")

\* for hp_type in ("ashp", "gshp"): the capacity, then the generation constraint
add_cooling_heat_pump_constraints(net, cfg, m) ==
    LET hp_types == <<"ashp", "gshp">>
        f[i \in 0..Len(hp_types)] ==
            IF i = 0 THEN m
            ELSE add_hp_generation_constraint(net, hp_types[i],
                                add_hp_capacity_constraint(net, hp_types[i], f[i - 1]))
    IN f[Len(hp_types)]

add_gshp_capacity_constraint(net, cfg, m) ==
    LET ashp == LinksEndingWith(net, <<"ashp">>)
        gshp == LinksEndingWith(net, <<"gshp">>)
    IN IF gshp = {} THEN m
       ELSE IF Cardinality(ashp) # Cardinality(gshp) THEN Raise(m, "AssertionError")
       ELSE add_constraints(m, Static("Link-gshp_capacity_ratio"), "gshp_ratio")

\* state.upper() on the state names of the tables
Upper(s) == CASE s = "usa" -> "USA" [] s = "Usa" -> "USA" [] OTHER -> s

\* store names are held as <<prefix, sector, suffix>>, the parts the code
\* tests with str.startswith(state) and str.endswith(sector + "-co2")
StoreStartsWith(name, state) == name[1] = state
StoreEndsWith(name, suffix) == name[3] = suffix
StoreEndsWithSector(name, sector, suffix) == name[2] = sector /\ name[3] = suffix

\* sns[sns.get_level_values("period") == year][-1], as a position in n.snapshots
LastSnapshot(net, year) ==
    LET sns == {i \in 1..Len(net.snapshots) : net.snapshots[i].period = year}
    IN CHOOSE i \in sns : \A k \in sns : k <= i

\* the stores of apply_total_national_limit, apply_sector_national_limit,
\* apply_total_state_limit and apply_sector_state_limit
LimitStores(net, sector, state) ==
    {x \in DOMAIN net.stores :
        /\ Upper(state) = "USA" \/ StoreStartsWith(x, state)
        /\ IF sector = "all"
           THEN StoreEndsWith(x, "-co2") \/ StoreEndsWith(x, "-ch4")
           ELSE \/ StoreEndsWithSector(x, sector, "-co2")
                \/ StoreEndsWithSector(x, sector, "-ch4")}

\* one policy year of one (sector, state) group
SectorCO2Year(net, df_state, sector, state, year, m) ==
    LET df_limit == SelectSeq(df_state, LAMBDA r : r.year = year)
        name == IF Upper(state) = "USA"
                THEN (IF sector = "all"
                      THEN Name("co2_limit-{y}", <<>>, <<>>, year, 0)
                      ELSE Name("co2_limit-{y}-{a}", <<sector>>, <<>>, year, 0))
                ELSE (IF sector = "all"
                      THEN Name("co2_limit-{y}-{a}", <<state>>, <<>>, year, 0)
                      ELSE Name("co2_limit-{y}-{a}-{b}", <<state>>, <<sector>>, year, 0))
    IN IF Len(df_limit) # 1 THEN Raise(m, "AssertionError")
       ELSE add_constraints_of(m,
                [followed |-> TRUE,
                 operands |-> <<LimitStores(net, sector, state)>>,
                 stores |-> LimitStores(net, sector, state),
                 snapshot |-> LastSnapshot(net, year),
                 sense |-> "<=",
                 rhs |-> df_limit[1].co2_limit_mmt * 1000000],
                name, "sector_co2")

\* the (sector, state) groups in the order the nested loops visit them
SectorStateGroups(df) ==
    LET sectors == Unique([i \in 1..Len(df) |-> df[i].sector])
        states(sector) ==
            LET rows == SelectSeq(df, LAMBDA r : r.sector = sector)
            IN Unique([i \in 1..Len(rows) |-> rows[i].state])
        f[i \in 0..Len(sectors)] ==
            IF i = 0 THEN <<>>
            ELSE LET sts == states(sectors[i])
                 IN f[i - 1] \o [k \in 1..Len(sts) |->
                                    [sector |-> sectors[i], state |-> sts[k]]]
    IN f[Len(sectors)]

\* acc.bound: whether the local variable year has been assigned by the inner loop
SectorCO2Group(net, df, g, acc) ==
    LET df_state == SelectSeq(df, LAMBDA r : r.sector = g.sector /\ r.state = g.state)
        years == SelectSeq(Unique([i \in 1..Len(df_state) |-> df_state[i].year]),
                           LAMBDA x : x \in Range(net.investment_periods))
        f[i \in 0..Len(years)] ==
            IF i = 0 THEN acc.m
            ELSE SectorCO2Year(net, df_state, g.sector, g.state, years[i], f[i - 1])
    IN IF years = <<>>
       THEN (IF acc.bound THEN acc
             ELSE [acc EXCEPT !.m = Raise(@, "UnboundLocalError"),
                              !.err = "UnboundLocalError"])
       ELSE [m |-> f[Len(years)], err |-> f[Len(years)].err, bound |-> TRUE]

add_sector_co2_constraints(net, cfg, sm, m) ==
    IF ~cfg.co2_policy THEN m
    ELSE IF sm.co2_policy = <<>> THEN m
    ELSE LET groups == SectorStateGroups(sm.co2_policy)
             f[i \in 0..Len(groups)] ==
                 IF i = 0 THEN [m |-> m, err |-> m.err, bound |-> FALSE]
                 ELSE SectorCO2Group(net, sm.co2_policy, groups[i], f[i - 1])
         IN f[Len(groups)].m

\* carrier.endswith("gas export") on the carriers of the fixtures
IsGasExport(carrier) == carrier \in {"gas export", "p1 gas export"}

add_export_limits(net, exports, m) ==
    LET links == {l \in DOMAIN net.links : IsGasExport(net.links[l].carrier)}
        with_rhs == SelectSeq(exports, LAMBDA r : r.link \in links)
        years == net.investment_periods
        \* for link in lhs.index, of the year year
        inner(year, m0) ==
            LET g[k \in 0..Len(with_rhs)] ==
                    IF k = 0 THEN m0
                    ELSE add_constraints_of(g[k - 1],
                            [followed |-> TRUE, operands |-> <<{with_rhs[k].link}>>,
                             link |-> with_rhs[k].link, year |-> year,
                             weighted |-> TRUE, sense |-> ">=",
                             rhs |-> with_rhs[k].rhs],
                            Name("ng_limit-{y}-{a}", with_rhs[k].link, <<>>, year, 0),
                            "natural_gas")
            IN g[Len(with_rhs)]
        f[i \in 0..Len(years)] ==
            IF i = 0 THEN m
            ELSE inner(years[i], f[i - 1])
    IN f[Len(years)]

add_ng_import_export_limits(net, cfg, sm, m) ==
    add_export_limits(net, sm.ng_international_exports,
        add_export_limits(net, sm.ng_domestic_exports, m))

\* re.findall(float_regex, o)[0] raises IndexError when nothing matches
add_EQ_constraints(net, o, m) ==
    IF ~FindallFloat(o) THEN Raise(m, "IndexError")
    ELSE add_constraints(m, Static("equity_min"), "EQ")

\* n.links.index.str.contains(part), the link names held as their parts
NameContains(name, part) == part \in Range(name)

\* lhs = Link-p_nom.loc[chargers_ext] - Link-p_nom.loc[dischargers_ext] * eff:
\* eff is a positional array, and linopy merges two operands of the same
\* shape by position (join="override"), operands of different shapes by
\* label (join="outer"), where no charger shares a label with a discharger
ChargerRatioTerms(net, chargers_ext, dischargers_ext) ==
    IF Len(chargers_ext) = Len(dischargers_ext)
    THEN {[charger |-> chargers_ext[i], discharger |-> dischargers_ext[i],
           eff |-> net.links[dischargers_ext[i]].efficiency] : i \in 1..Len(chargers_ext)}
    ELSE {[charger |-> chargers_ext[i], discharger |-> <<>>, eff |-> 0]
            : i \in 1..Len(chargers_ext)}
         \cup {[charger |-> <<>>, discharger |-> dischargers_ext[i],
                eff |-> net.links[dischargers_ext[i]].efficiency]
            : i \in 1..Len(dischargers_ext)}

add_battery_constraints(net, m) ==
    LET dischargers_ext == SelectSeq(net.links_index,
                             LAMBDA l : /\ NameContains(l, "battery discharger")
                                        /\ net.links[l].p_nom_extendable)
        chargers_ext == SelectSeq(net.links_index,
                             LAMBDA l : /\ NameContains(l, "battery charger")
                                        /\ net.links[l].p_nom_extendable)
    IN IF ~AnyExtendable(net.links) THEN m
       ELSE add_constraints_of(m,
                [followed |-> TRUE,
                 operands |-> <<Range(chargers_ext), Range(dischargers_ext)>>,
                 chargers |-> Range(chargers_ext), dischargers |-> Range(dischargers_ext),
                 terms |-> ChargerRatioTerms(net, chargers_ext, dischargers_ext),
                 sense |-> "==", rhs |-> 0],
                Static("Link-charger_ratio"), "battery")

add_land_use_constraints(net, m) ==
    LET generators == {g \in DOMAIN net.generators :
                          /\ net.generators[g].p_nom_extendable
                          /\ net.generators[g].land_region # ""}
        index == {g \in generators : net.generators[g].p_nom_max_finite}
    IN IF generators = {} THEN m
       ELSE IF index = {} THEN m
       ELSE add_constraints(m, Static("land_use_constraint"), "land_use")

----------------------------------------------------------------------------
(* The constraint orchestrator *)

\* "TOKEN" in opts, for opts a list
InOpts(token, o) == token \in Range(o)

\* one call of extra_functionality: the family, and for the loop over opts
\* the token o of the iteration
Step(family, o) == [family |-> family, o |-> o]

\* the capacity targets called first
GeneratorFamilies_TCT_first ==
    <<Step("TCT", T_TCT), Step("RPS", T_RPS), Step("REM", T_REM), Step("BAU", T_BAU),
      Step("SAFE", T_SAFE), Step("SAFER", T_SAFER)>>

\* the calls guarded by a token and n.generators.p_nom_extendable.any()
GeneratorFamilies ==
    <<Step("RPS", T_RPS), Step("REM", T_REM), Step("BAU", T_BAU),
      Step("SAFE", T_SAFE), Step("SAFER", T_SAFER), Step("TCT", T_TCT)>>

\* the calls guarded by a configuration entry
ConfigFamilies ==
    <<Step("operational_reserve", <<>>), Step("interface_limits", <<>>)>>

\* the calls under if "sector" in opts
SectorFamilies ==
    <<Step("heat_pump", T_sector), Step("gshp_ratio", T_sector),
      Step("sector_co2", T_sector), Step("natural_gas", T_sector)>>

\* for o in opts: if "EQ" in o: add_EQ_constraints(n, o)
EquityFamilies(o) == [i \in 1..Len(o) |-> Step("EQ", o[i])]

\* the calls made on every build
UnconditionalFamilies == <<Step("battery", <<>>), Step("land_use", <<>>)>>

\* the condition under which extra_functionality makes the call
Guard(step, net) ==
    LET cfg == net.config
        family == step.family
    IN CASE family \in {"RPS", "REM", "BAU", "SAFE", "SAFER", "TCT"} ->
                InOpts(step.o, net.opts) /\ AnyExtendable(net.generators)
         [] family = "operational_reserve" -> cfg.operational_reserve
         [] family = "interface_limits" -> cfg.interface_transmission_limits
         [] family = "heat_pump" -> InOpts(step.o, net.opts)
         [] family = "gshp_ratio" -> InOpts(step.o, net.opts) /\ cfg.split_urban_rural
         [] family = "sector_co2" -> InOpts(step.o, net.opts) /\ cfg.co2_policy
         [] family = "natural_gas" -> InOpts(step.o, net.opts) /\ cfg.force_imports_exports
         [] family = "EQ" -> Contains(step.o, <<"E", "Q">>)
         [] OTHER -> TRUE

\* the function the call invokes, on the model m
Family(step, net, sm, m) ==
    LET cfg == net.config
        family == step.family
    IN CASE family = "RPS" -> add_RPS_constraints(net, cfg, sm, m)
         [] family = "REM" -> add_regional_co2limit(net, cfg, sm, m)
         [] family = "BAU" -> add_BAU_constraints(net, cfg, m)
         [] family = "SAFE" -> add_SAFE_constraints(net, cfg, m)
         [] family = "SAFER" -> add_SAFER_constraints(net, cfg, sm, m)
         [] family = "TCT" -> add_technology_capacity_target_constraints(net, cfg, sm, m)
         [] family = "operational_reserve" -> add_operational_reserve_margin(net, cfg, m)
         [] family = "interface_limits" -> add_interface_limits(net, cfg, sm, m)
         [] family = "heat_pump" -> add_cooling_heat_pump_constraints(net, cfg, m)
         [] family = "gshp_ratio" -> add_gshp_capacity_constraint(net, cfg, m)
         [] family = "sector_co2" -> add_sector_co2_constraints(net, cfg, sm, m)
         [] family = "natural_gas" -> add_ng_import_export_limits(net, cfg, sm, m)
         [] family = "EQ" -> add_EQ_constraints(net, step.o, m)
         [] family = "battery" -> add_battery_constraints(net, m)
         [] family = "land_use" -> add_land_use_constraints(net, m)

\* if guard: family(...); nothing is called once an exception has ended the build
Call(step, net, sm, m) ==
    IF m.err # "" \/ ~Guard(step, net) THEN m
    ELSE Family(step, net, sm, Enter(m, step.family))

\* extra_functionality(n, snapshots) on the model m0; n.opts and n.config
\* are attributes set by solve_network
extra_functionality(net, sm, m0) ==
    LET steps == GeneratorFamilies \o ConfigFamilies \o SectorFamilies
                 \o EquityFamilies(net.opts) \o UnconditionalFamilies
        f[i \in 0..Len(steps)] ==
            IF i = 0 THEN m0 ELSE Call(steps[i], net, sm, f[i - 1])
    IN IF ~net.attached THEN Raise(m0, "AttributeError") ELSE f[Len(steps)]

----------------------------------------------------------------------------
(* The solve strategy dispatcher *)

\* termination conditions are held as their words: "infeasible_or_unbounded"
\* is <<"infeasible", "or", "unbounded">>, and "" is <<>>
SolverResults ==
    {[status |-> "ok", condition |-> <<"optimal">>],
     [status |-> "warning", condition |-> <<"infeasible">>],
     [status |-> "warning", condition |-> <<"infeasible", "or", "unbounded">>],
     [status |-> "warning", condition |-> <<"time", "limit">>]}

OkResult == [status |-> "ok", condition |-> <<"optimal">>]

\* rolling_horizon = cf_solving.pop("rolling_horizon", False)
RollingHorizon(cf_solving) == Get(cf_solving, "rolling_horizon", FALSE)

\* the line check of SkipIterations left out
SkipIterations_configured_only(cf_solving, net) ==
    Get(cf_solving, "skip_iterations", FALSE)

\* skip_iterations = cf_solving.pop("skip_iterations", False), forced to True
\* when no line is extendable
SkipIterations(cf_solving, net) ==
    IF ~(\E l \in DOMAIN net.lines : net.lines[l].s_nom_extendable) THEN TRUE
    ELSE Get(cf_solving, "skip_iterations", FALSE)

\* Strategy with the skip_iterations branch tested first
Strategy_skip_first(rolling_horizon, skip_iterations) ==
    IF skip_iterations THEN "direct"
    ELSE IF rolling_horizon THEN "rolling_horizon"
    ELSE "iterative"

\* Strategy with the iterative branch taken only when no line is skipped over
Strategy_never_iterative(rolling_horizon, skip_iterations) ==
    IF rolling_horizon THEN "rolling_horizon" ELSE "direct"

\* the if / elif / else that picks the backend entry point
Strategy(rolling_horizon, skip_iterations) ==
    IF rolling_horizon THEN "rolling_horizon"
    ELSE IF skip_iterations THEN "direct"
    ELSE "iterative"

\* a keyword argument: not passed, or passed as a plain value ("value") or
\* as a one-element tuple holding it ("tuple")
NotPassed == [passed |-> FALSE, kind |-> "", v |-> <<>>]
Passed(kind, v) == [passed |-> TRUE, kind |-> kind, v |-> <<v>>]

\* the keyword arguments each strategy adds; the assignments of the
\* iterative branch end in a comma, which makes each value a tuple
StrategyKwargs(strategy, cf_solving) ==
    LET none == [horizon |-> NotPassed, overlap |-> NotPassed,
                 track_iterations |-> NotPassed,
                 min_iterations |-> NotPassed, max_iterations |-> NotPassed]
    IN IF strategy = "rolling_horizon"
       THEN [none EXCEPT !.horizon = Passed("value", Get(cf_solving, "horizon", 365)),
                         !.overlap = Passed("value", Get(cf_solving, "overlap", 0))]
       ELSE IF strategy = "direct" THEN none
       ELSE [none EXCEPT
                !.track_iterations = Passed("tuple", Get(cf_solving, "track_iterations", FALSE)),
                !.min_iterations = Passed("tuple", Get(cf_solving, "min_iterations", 4)),
                !.max_iterations = Passed("tuple", Get(cf_solving, "max_iterations", 6))]

\* status, condition as solve_network holds them after the backend returned
Returned(strategy, last) ==
    IF strategy = "rolling_horizon" THEN [status |-> "", condition |-> <<>>]
    ELSE last

\* Warns with the status test inverted
Warns_on_ok(status, rolling_horizon) == status = "ok" /\ ~rolling_horizon

\* if status != "ok" and not rolling_horizon
Warns(status, rolling_horizon) == status # "ok" /\ ~rolling_horizon

\* Infeasible as an equality test instead of a substring test
Infeasible_exact(condition) == condition = <<"infeasible">>

\* if "infeasible" in condition
Infeasible(condition) == \E i \in 1..Len(condition) : condition[i] = "infeasible"

\* what solve_network does once the backend has returned
AfterSolve(status, condition, rolling_horizon) ==
    (IF Warns(status, rolling_horizon) THEN <<"warning">> ELSE <<>>)
    \o (IF Infeasible(condition)
        THEN <<"print_infeasibilities", "raise RuntimeError">>
        ELSE <<"return n">>)

NoOutcome ==
    [state |-> "none", err |-> "", strategy |-> "", rolling_horizon |-> FALSE,
     skip_configured |-> FALSE, lines_extendable |-> FALSE, status |-> "",
     condition |-> <<>>, kwargs |-> StrategyKwargs("direct", <<>>),
     first |-> {}, first_err |-> ""]

\* the backend's results of one strategy call: builds model builds, the
\* iterations before the last one having solved to "ok"
BackendSolves(strategy, builds, results) ==
    IF strategy = "direct" THEN <<results[1]>>
    ELSE IF strategy = "iterative"
    THEN [i \in 1..builds |-> IF i < builds THEN OkResult ELSE results[builds]]
    ELSE [i \in 1..builds |-> results[i]]

\* the attachment left out
Attach_not_attached(net, cfg, o) == net

\* n.config = config; n.opts = opts
Attach(net, cfg, o) == [net EXCEPT !.config = cfg, !.opts = o, !.attached = TRUE]

\* solve_network(n, config, solving, opts): results are the backend's solver
\* results for up to MaxBuilds builds, crash an exception raised by the solver
solve_network(builds, results, crash) ==
    LET cf_solving == solving
        rolling_horizon == RollingHorizon(cf_solving)
        skip_iterations == SkipIterations(cf_solving, n)
        popped == Popped(Popped(cf_solving, "rolling_horizon"), "skip_iterations")
        strategy == Strategy(rolling_horizon, skip_iterations)
        attached == Attach(n, config, opts)
        \* every build of the model calls extra_functionality on a new model
        built == extra_functionality(attached, snakemake, NewModel)
        launched == BackendSolves(strategy, builds, results)
        last == Returned(strategy, launched[Len(launched)])
        before == (IF \E l \in DOMAIN n.lines : n.lines[l].s_nom_extendable
                   THEN <<>> ELSE <<"info: no expandable lines">>)
                  \o <<"attach", strategy>>
        base == [NoOutcome EXCEPT !.strategy = strategy,
                                  !.rolling_horizon = rolling_horizon,
                                  !.skip_configured = Get(cf_solving, "skip_iterations", FALSE),
                                  !.lines_extendable =
                                      \E l \in DOMAIN n.lines : n.lines[l].s_nom_extendable,
                                  !.kwargs = StrategyKwargs(strategy, popped)]
    IN /\ ncalls < MaxCalls
       /\ ncalls' = ncalls + 1
       /\ solving' = popped
       /\ n' = [attached EXCEPT !.model = built]
       /\ UNCHANGED <<config, opts, snakemake, args, result>>
       /\ IF built.err # ""
          THEN /\ trace' = before \o <<"raise " \o built.err>>
               /\ solves' = <<>>
               /\ outcome' = [base EXCEPT !.state = "raised", !.err = built.err]
          ELSE IF crash
          THEN /\ trace' = before \o <<"raise SolverError">>
               /\ solves' = <<>>
               /\ outcome' = [base EXCEPT !.state = "raised", !.err = "SolverError"]
          ELSE LET after == AfterSolve(last.status, last.condition, rolling_horizon)
               IN /\ trace' = before \o after
                  /\ solves' = launched
                  /\ outcome' = [base EXCEPT
                        !.state = IF after[Len(after)] = "return n"
                                  THEN "returned" ELSE "raised",
                        !.err = IF after[Len(after)] = "return n"
                                THEN "" ELSE "RuntimeError",
                        !.status = last.status, !.condition = last.condition]

SolveNetwork ==
    \E builds \in 1..MaxBuilds, crash \in BOOLEAN :
        \E results \in [1..builds -> SolverResults] :
            solve_network(builds, results, crash)

\* the iteration counts of solving["options"]: absent, a maximum alone, both
IterationOptions ==
    {[k \in {} |-> 0],
     [k \in {"max_iterations"} |-> 1],
     [k \in {"min_iterations", "max_iterations"} |-> IF k = "min_iterations" THEN 1 ELSE 2]}

SolvingOptions ==
    UNION {[keys -> BOOLEAN] : keys \in SUBSET {"rolling_horizon", "skip_iterations"}}
    \cup IterationOptions

Init ==
    /\ n \in {Network(g, l, lines) :
                g \in {t \in GeneratorTables : t["g1"].p_nom_extendable},
                l \in {t \in LinkTables : t[<<"p1", "battery charger">>].p_nom_extendable},
                lines \in LineTables}
    /\ \E c \in ({NoConfig} \X {<<>>, <<T_RPS>>, <<T_SAFE>>})
                    \cup {<<Config(TRUE, TRUE, TRUE, TRUE, TRUE), <<T_RPS>>>>} :
            config = c[1] /\ opts = c[2]
    /\ solving \in SolvingOptions
    /\ snakemake = Snakemake
    /\ outcome = NoOutcome
    /\ trace = <<>>
    /\ solves = <<>>
    /\ ncalls = 0
    /\ args = NoArgs
    /\ result = NoResult

Next == SolveNetwork

Spec == Init /\ [][Next]_vars

----------------------------------------------------------------------------
(* Builds of the model: the backend creates a model and calls               *)
(* extra_functionality on it; Reinvoke calls it again on the same model.    *)

Build ==
    /\ ncalls = 0
    /\ LET m == extra_functionality(n, snakemake, NewModel)
       IN /\ n' = [n EXCEPT !.model = m]
          /\ outcome' = [NoOutcome EXCEPT !.state = "built", !.err = m.err,
                                          !.first = ConNames(m), !.first_err = m.err]
    /\ ncalls' = 1
    /\ UNCHANGED <<config, solving, opts, snakemake, trace, solves, args, result>>

Reinvoke ==
    /\ ncalls >= 1
    /\ ncalls < MaxCalls
    /\ LET m == extra_functionality(n, snakemake,
                    [n.model EXCEPT !.calls = <<>>, !.err = ""])
       IN /\ n' = [n EXCEPT !.model = m]
          /\ outcome' = [outcome EXCEPT !.state = "reinvoked", !.err = m.err]
    /\ ncalls' = ncalls + 1
    /\ UNCHANGED <<config, solving, opts, snakemake, trace, solves, args, result>>

InitEF ==
    /\ opts \in TokenLists(Tokens, MaxOpts)
    /\ config \in Configs
    /\ n \in {[Network(g, l, lines) EXCEPT !.attached = TRUE, !.opts = opts,
                                           !.config = config] :
                g \in GeneratorTables, l \in LinkTables,
                lines \in {t \in LineTables : ~t["L1"].s_nom_extendable
                                              /\ ~t["L2"].s_nom_extendable}}
    /\ solving \in {[k \in {} |-> FALSE]}
    /\ snakemake = Snakemake
    /\ outcome = NoOutcome
    /\ trace = <<>>
    /\ solves = <<>>
    /\ ncalls = 0
    /\ args = NoArgs
    /\ result = NoResult

NextEF == Build \/ Reinvoke

SpecEF == InitEF /\ [][NextEF]_vars

----------------------------------------------------------------------------
(* Properties of the solve strategy dispatcher (specification Spec) *)

\* the solving options hold the key with a true value when the call starts
Requested(key) == key \in DOMAIN solving /\ solving[key] = TRUE

LineExtendable == \E l \in DOMAIN n.lines : n.lines[l].s_nom_extendable

\* the backend entry point the last call of solve_network invoked
Invoked(entry) == entry \in Range(trace)

Called == ncalls' = ncalls + 1

\* the termination conditions that indicate infeasibility
IndicatesInfeasibility(condition) ==
    condition \in {<<"infeasible">>, <<"infeasible", "or", "unbounded">>}

\* the result the backend handed back to solve_network under direct / iterative
BackendReturned == outcome.strategy \in {"direct", "iterative"} /\ solves # <<>>
LastSolve == solves[Len(solves)]

\* C1: a call made with rolling_horizon requested invokes the rolling-horizon
\* optimization and neither the direct nor the iterative solve, whatever
\* skip_iterations and the lines' extendability are
C1_RollingOverrides ==
    [][(Called /\ Requested("rolling_horizon"))
        => (Invoked("rolling_horizon") /\ ~Invoked("direct") /\ ~Invoked("iterative"))']_vars

C1_Witness ==
    /\ outcome.state = "returned"
    /\ Invoked("rolling_horizon")
    /\ outcome.skip_configured
    /\ outcome.lines_extendable

\* C2: a call made without rolling horizon on a network with no extendable
\* line invokes the direct solve and not the iterative one, whatever
\* skip_iterations is configured to
C2_NoExtendableLineDirect ==
    [][(Called /\ ~Requested("rolling_horizon") /\ ~LineExtendable)
        => (Invoked("direct") /\ ~Invoked("iterative"))']_vars

C2_Witness ==
    /\ outcome.state = "returned"
    /\ Invoked("direct")
    /\ ~outcome.lines_extendable
    /\ ~outcome.skip_configured

\* C3 as stated: a call made without rolling horizon on a network with an
\* extendable line invokes the iterative solve, for every configuration
C3_Original ==
    [][(Called /\ ~Requested("rolling_horizon") /\ LineExtendable)
        => Invoked("iterative")']_vars

\* C3 amended: a call made without rolling horizon and without
\* skip_iterations on a network with an extendable line invokes the iterative
\* transmission expansion; with skip_iterations set it invokes the direct solve
C3_IterativeUnlessSkipped ==
    [][(Called /\ ~Requested("rolling_horizon") /\ LineExtendable)
        => /\ Requested("skip_iterations")
                => (Invoked("direct") /\ ~Invoked("iterative"))'
           /\ ~Requested("skip_iterations")
                => (Invoked("iterative") /\ ~Invoked("direct"))']_vars

C3_Witness ==
    /\ outcome.state = "returned"
    /\ Invoked("iterative")
    /\ outcome.lines_extendable
    /\ Len(solves) = MaxBuilds

\* C4: under the direct or iterative strategy, a returned termination
\* condition that indicates infeasibility makes solve_network request the
\* infeasibility report and then raise; the network is not returned
C4_InfeasibleReportsThenRaises ==
    (BackendReturned /\ IndicatesInfeasibility(LastSolve.condition))
        => /\ outcome.state = "raised"
           /\ ~Invoked("return n")
           /\ \E i \in 1..Len(trace) :
                /\ trace[i] = "print_infeasibilities"
                /\ i < Len(trace)
                /\ trace[Len(trace)] = "raise RuntimeError"

C4_Witness ==
    /\ BackendReturned
    /\ LastSolve.condition = <<"infeasible", "or", "unbounded">>
    /\ outcome.state = "raised"

\* C5: under every strategy, solve_network does not return normally when a
\* backend solve it launched ended infeasible
C5_NoReturnAfterInfeasible ==
    outcome.state = "returned"
        => \A i \in 1..Len(solves) : ~IndicatesInfeasibility(solves[i].condition)

\* C6: under the direct or iterative strategy, a status other than "ok" with
\* a termination condition that does not indicate infeasibility logs a
\* warning, raises nothing, and returns the network
C6_NonOkWarnsAndReturns ==
    (BackendReturned /\ LastSolve.status # "ok"
                     /\ ~IndicatesInfeasibility(LastSolve.condition))
        => /\ Invoked("warning")
           /\ outcome.state = "returned"
           /\ outcome.err = ""
           /\ trace[Len(trace)] = "return n"

C6_Witness ==
    /\ BackendReturned
    /\ LastSolve = [status |-> "warning", condition |-> <<"time", "limit">>]
    /\ outcome.state = "returned"

----------------------------------------------------------------------------
(* Properties of the constraint orchestrator (specification SpecEF) *)

FamiliesInvoked == Range(n.model.calls)

HasToken(token) == \E i \in 1..Len(n.opts) : n.opts[i] = token

SomeGeneratorExtendable == \E g \in DOMAIN n.generators : n.generators[g].p_nom_extendable

\* the activation predicate of every family the orchestrator can invoke
Activated(family) ==
    CASE family = "RPS" -> HasToken(T_RPS) /\ SomeGeneratorExtendable
      [] family = "REM" -> HasToken(T_REM) /\ SomeGeneratorExtendable
      [] family = "BAU" -> HasToken(T_BAU) /\ SomeGeneratorExtendable
      [] family = "SAFE" -> HasToken(T_SAFE) /\ SomeGeneratorExtendable
      [] family = "SAFER" -> HasToken(T_SAFER) /\ SomeGeneratorExtendable
      [] family = "TCT" -> HasToken(T_TCT) /\ SomeGeneratorExtendable
      [] family = "heat_pump" -> HasToken(T_sector)
      [] family = "gshp_ratio" -> HasToken(T_sector) /\ n.config.split_urban_rural
      [] family = "sector_co2" -> HasToken(T_sector) /\ n.config.co2_policy
      [] family = "natural_gas" -> HasToken(T_sector) /\ n.config.force_imports_exports
      [] family = "operational_reserve" -> n.config.operational_reserve
      [] family = "interface_limits" -> n.config.interface_transmission_limits
      [] family = "battery" -> TRUE
      [] family = "land_use" -> TRUE

ListedFamilies ==
    {"RPS", "REM", "BAU", "SAFE", "SAFER", "TCT", "heat_pump", "gshp_ratio",
     "sector_co2", "natural_gas", "operational_reserve", "interface_limits",
     "battery", "land_use"}

\* C7: one build invokes each listed family iff its activation predicate
\* holds, storage symmetry and land-use on every build
C7_ExactlyActivatedFamilies ==
    outcome.state = "built"
        => \A family \in ListedFamilies : (family \in FamiliesInvoked) <=> Activated(family)

\* C8: a second call of extra_functionality on the same model raises no
\* duplicate-name error and leaves the set of named constraints as the first
\* call left it
C8_IdempotentReinvocation ==
    outcome.state = "reinvoked"
        => /\ n.model.err # DuplicateError
           /\ ConNames(n.model) = outcome.first

\* a build of the same network with the token list l
BuildWith(l) == extra_functionality([n EXCEPT !.opts = l], snakemake, NewModel)

\* C9: the tokens that are not recognized codes change neither whether the
\* build raises nor the constraints it registers
C9_UnknownTokensIgnored ==
    outcome.state = "built"
        => LET base == BuildWith(SelectSeq(n.opts, Recognized))
           IN /\ base.err = "" => n.model.err = ""
              /\ ConNames(n.model) = ConNames(base)

Count(s, x) == Cardinality({i \in 1..Len(s) : s[i] = x})

\* the token lists with the same set of distinct tokens as l
SameTokenSet(l) ==
    {k \in TokenLists(Range(l), MaxOpts + 1) : Range(k) = Range(l)}

\* C10: token lists with the same set of distinct tokens invoke every family
\* the same number of times, register the same named constraints and end
\* the same way
C10_TokensActAsSet ==
    outcome.state = "built"
        => \A l \in SameTokenSet(n.opts) :
            LET other == BuildWith(l)
            IN /\ other.err = n.model.err
               /\ ConNames(other) = ConNames(n.model)
               /\ \A family \in ListedFamilies \cup {"EQ"} :
                    Count(other.calls, family) = Count(n.model.calls, family)

----------------------------------------------------------------------------
(* The region resolver called on its own: get_region_buses(n, region_list)  *)
(* on bus tables whose interconnect names are lower case or capitalized.    *)

MaxRegions == 2     \* most tokens of one region list

BusTables ==
    {[b \in {"p1", "p2"} |->
        [Buses[b] EXCEPT !.interconnect = IF b = "p1" THEN w ELSE t]]
     : w \in {"western", "Western"}, t \in {"texas", "Texas"}}

\* region tokens as a policy row may list them: bus attributes of the
\* fixtures, in either case, "all", and a region the network does not have
RegionTokens ==
    {"p1", "CA", "TX", "western", "Western", "Texas", "WECC", "ERCOT", "all", "NY"}

RegionLists == {r \in SUBSET RegionTokens : Cardinality(r) <= MaxRegions}

InitRegion ==
    /\ n \in {[Network(g, l, lines) EXCEPT !.buses = b] :
                g \in {t \in GeneratorTables : t["g1"].p_nom_extendable /\ t["g2"].p_nom_extendable},
                l \in {t \in LinkTables : t[<<"p1", "battery charger">>].p_nom_extendable},
                lines \in {t \in LineTables : t["L1"].s_nom_extendable},
                b \in BusTables}
    /\ args \in {[helper |-> "get_region_buses", region_list |-> r] : r \in RegionLists}
    /\ result = NoResult
    /\ config = NoConfig
    /\ solving \in {[k \in {} |-> FALSE]}
    /\ opts = <<>>
    /\ snakemake = Snakemake
    /\ outcome = NoOutcome
    /\ trace = <<>>
    /\ solves = <<>>
    /\ ncalls = 0

\* one call of get_region_buses: the index of the DataFrame it returns
ResolveRegion ==
    /\ args.helper = "get_region_buses"
    /\ ~result.called
    /\ result' = [called |-> TRUE, value |-> get_region_buses(n, args.region_list)]
    /\ UNCHANGED <<n, config, solving, opts, snakemake, outcome, trace, solves,
                   ncalls, args>>

SpecRegion == InitRegion /\ [][ResolveRegion]_vars

----------------------------------------------------------------------------
(* Properties of the region resolver (specification SpecRegion) *)

Resolved == args.helper = "get_region_buses" /\ result.called

\* two names are equal up to letter case
EqualUpToCase(a, b) == Lower(a) = Lower(b)

\* the bus matches the token on one of the four attributes, the
\* interconnect name up to letter case
MatchesToken(bus, token) ==
    \/ bus.country = token
    \/ bus.reeds_state = token
    \/ EqualUpToCase(bus.interconnect, token)
    \/ bus.nerc_reg = token

MatchingBuses ==
    {b \in DOMAIN n.buses : \E token \in args.region_list : MatchesToken(n.buses[b], token)}

\* C11: get_region_buses returns exactly the buses matching some token on
\* some attribute, every bus when "all" is a token, and the empty set when
\* nothing matches
C11_ExactlyMatchingBuses ==
    Resolved
        => /\ "all" \in args.region_list => result.value = DOMAIN n.buses
           /\ "all" \notin args.region_list => result.value = MatchingBuses
           /\ ("all" \notin args.region_list /\ MatchingBuses = {}) => result.value = {}

\* C12: a bus whose interconnect name equals a token up to letter case is
\* returned, whatever the case of the token and of the bus attribute
C12_InterconnectCaseInsensitive ==
    Resolved
        => \A b \in DOMAIN n.buses :
            (\E token \in args.region_list :
                EqualUpToCase(n.buses[b].interconnect, token))
                => b \in result.value

----------------------------------------------------------------------------
(* The component filter called on its own: filter_components on generator   *)
(* tables whose rows differ in extendability, build year and lifetime.      *)

\* (build_year, lifetime): active in both periods, retired before the
\* second, built after the first
Vintages == {<<2020, 30>>, <<2020, 15>>, <<2035, 30>>}

ComponentTables ==
    {[g \in {"g1", "g2"} |->
        IF g = "g1"
        THEN [Gen("p1", "solar", e1, "p1_lr") EXCEPT !.build_year = v1[1], !.lifetime = v1[2]]
        ELSE [Gen("p2", "CCGT", e2, "") EXCEPT !.build_year = v2[1], !.lifetime = v2[2]]]
     : e1 \in BOOLEAN, e2 \in BOOLEAN, v1 \in Vintages, v2 \in Vintages}

InitFilter ==
    /\ n \in {[Network(g, l, lines) EXCEPT !.generators = c] :
                g \in {t \in GeneratorTables : t["g1"].p_nom_extendable /\ t["g2"].p_nom_extendable},
                l \in {t \in LinkTables : t[<<"p1", "battery charger">>].p_nom_extendable},
                lines \in {t \in LineTables : t["L1"].s_nom_extendable},
                c \in ComponentTables}
    /\ args \in [helper : {"filter_components"},
                 planning_horizon : Range(<<Y1, Y2>>),
                 carrier_list : SUBSET {"solar", "CCGT"},
                 region_buses : SUBSET {"p1", "p2"},
                 extendable : BOOLEAN]
    /\ result = NoResult
    /\ config = NoConfig
    /\ solving \in {[k \in {} |-> FALSE]}
    /\ opts = <<>>
    /\ snakemake = Snakemake
    /\ outcome = NoOutcome
    /\ trace = <<>>
    /\ solves = <<>>
    /\ ncalls = 0

\* one call of filter_components(n, "Generator", ...): the index of the
\* DataFrame it returns
FilterComponents ==
    /\ args.helper = "filter_components"
    /\ ~result.called
    /\ result' = [called |-> TRUE,
                  value |-> filter_components(n.generators, args.planning_horizon,
                                              args.carrier_list, args.region_buses,
                                              args.extendable)]
    /\ UNCHANGED <<n, config, solving, opts, snakemake, outcome, trace, solves,
                   ncalls, args>>

SpecFilter == InitFilter /\ [][FilterComponents]_vars

----------------------------------------------------------------------------
(* Properties of the component filter (specification SpecFilter) *)

Filtered == args.helper = "filter_components" /\ result.called

\* the row satisfies the four predicates of the call
SatisfiesAll(row) ==
    /\ row.carrier \in args.carrier_list
    /\ row.bus \in args.region_buses
    /\ row.p_nom_extendable = args.extendable
    /\ get_active_assets(row, args.planning_horizon)

\* C13: filter_components returns exactly the rows that satisfy all four
\* predicates; an empty carrier list or bus set gives an empty result
C13_StrictConjunction ==
    Filtered
        => /\ \A c \in result.value : c \in DOMAIN n.generators /\ SatisfiesAll(n.generators[c])
           /\ \A c \in DOMAIN n.generators : SatisfiesAll(n.generators[c]) => c \in result.value
           /\ (args.carrier_list = {} \/ args.region_buses = {}) => result.value = {}

\* a call that returns one row and leaves out the other, which passes the
\* carrier and bus tests and is active but differs in extendability
C13_Witness ==
    /\ Filtered
    /\ Cardinality(result.value) = 1
    /\ \E c \in DOMAIN n.generators \ result.value :
        /\ n.generators[c].carrier \in args.carrier_list
        /\ n.generators[c].bus \in args.region_buses
        /\ get_active_assets(n.generators[c], args.planning_horizon)

----------------------------------------------------------------------------
(* Builds over varied policy tables: one family activated at a time, policy *)
(* rows with horizons the network does not have, regions it does not have,  *)
(* non-positive percentages, and configurations with a key left out.        *)

\* a planning horizon that is not an investment period of the network
Y3 == IntYear(2050)

PortfolioRow(name, pct, planning_horizon, region, carrier) ==
    [name |-> name, pct |-> pct, planning_horizon |-> planning_horizon,
     region |-> region, carrier |-> carrier]

\* config["electricity"]["portfolio_standards"]: the file of the fixture, a
\* file with a negative row, a region without eligible generators and a
\* second horizon, a file with an unrealized horizon and an unknown region,
\* and a file with a row named as a state of the ReEDS RPS file
PortfolioFiles ==
    {Snakemake.portfolio_standards,
     <<PortfolioRow("negative", -5, Y1, {"all"}, {"solar"}),
       PortfolioRow("tx_solar", 40, Y1, {"texas"}, {"solar"}),
       PortfolioRow("everywhere", 30, Y2, {"all"}, {"solar"})>>,
     <<PortfolioRow("late", 50, Y3, {"all"}, {"solar"}),
       PortfolioRow("nowhere", 20, Y1, {"NY"}, {"solar"}),
       PortfolioRow("west", 50, Y1, {"western"}, {"solar"})>>,
     <<PortfolioRow("CA", 40, Y2, {"CA"}, {"solar"})>>}

\* snakemake.input.rps_reeds: the file of the fixture and a file with a
\* state whose standard is zero
ReedsRPSFiles ==
    {Snakemake.rps_reeds,
     <<[st |-> "CA", t |-> Y1, rps_all |-> 0], [st |-> "TX", t |-> Y2, rps_all |-> 25]>>}

Co2LimitFiles ==
    {Snakemake.regional_Co2_limits,
     <<[name |-> "late", planning_horizon |-> Y3, regions |-> {"TX"}, limit |-> 100],
       [name |-> "nowhere", planning_horizon |-> Y1, regions |-> {"NY"}, limit |-> 100],
       [name |-> "texas_cap", planning_horizon |-> Y1, regions |-> {"TX"}, limit |-> 100]>>}

ReserveMarginFiles ==
    {Snakemake.regional_prm,
     <<[name |-> "late", planning_horizon |-> Y3, region |-> {"all"}, prm |-> 15],
       [name |-> "nowhere", planning_horizon |-> Y1, region |-> {"NY"}, prm |-> 15]>>,
     <<[name |-> "nowhere", planning_horizon |-> Y1, region |-> {"NY"}, prm |-> 15],
       [name |-> "west", planning_horizon |-> Y1, region |-> {"western"}, prm |-> 15]>>}

CapacityTargetFiles ==
    {Snakemake.technology_capacity_targets,
     <<[planning_horizon |-> Y3, region |-> {"all"}, carrier |-> {"solar"},
        min_nan |-> FALSE, min |-> 20, max_nan |-> TRUE, max |-> 0],
       [planning_horizon |-> Y1, region |-> {"NY"}, carrier |-> {"solar"},
        min_nan |-> FALSE, min |-> 20, max_nan |-> TRUE, max |-> 0],
       [planning_horizon |-> Y1, region |-> {"all"}, carrier |-> {"solar"},
        min_nan |-> FALSE, min |-> 20, max_nan |-> FALSE, max |-> 50]>>}

Co2PolicyRow(sector, state, year, co2_limit_mmt) ==
    [sector |-> sector, state |-> state, year |-> year, co2_limit_mmt |-> co2_limit_mmt]

\* config["sector"]["co2"]["policy"]: the file of the fixture, a file whose
\* only year is unrealized, a file with such a state between two others, a
\* file with sectors, and a file that starts with such a state
Co2PolicyFiles ==
    {Snakemake.co2_policy,
     <<Co2PolicyRow("all", "USA", Y3, 3)>>,
     <<Co2PolicyRow("all", "USA", Y1, 3), Co2PolicyRow("all", "CA", Y3, 2),
       Co2PolicyRow("all", "TX", Y2, 2)>>,
     <<Co2PolicyRow("res", "CA", Y1, 2), Co2PolicyRow("res", "CA", Y2, 1),
       Co2PolicyRow("trn", "USA", Y2, 5), Co2PolicyRow("all", "TX", Y1, 1)>>,
     <<Co2PolicyRow("all", "CA", Y3, 2), Co2PolicyRow("all", "TX", Y2, 2)>>}

\* the tables of one run: those of the fixture with one policy file replaced
PolicyTables ==
    {[Snakemake EXCEPT !.portfolio_standards = f] : f \in PortfolioFiles}
    \cup {[Snakemake EXCEPT !.rps_reeds = f] : f \in ReedsRPSFiles}
    \cup {[Snakemake EXCEPT !.regional_Co2_limits = f] : f \in Co2LimitFiles}
    \cup {[Snakemake EXCEPT !.regional_prm = f] : f \in ReserveMarginFiles}
    \cup {[Snakemake EXCEPT !.technology_capacity_targets = f] : f \in CapacityTargetFiles}
    \cup {[Snakemake EXCEPT !.co2_policy = f] : f \in Co2PolicyFiles}

\* the keys of config["electricity"] that name a policy file or setting
PolicyKeys ==
    {"portfolio_standards", "regional_Co2_limits", "BAU_mincapacities",
     "SAFE_reservemargin", "SAFE_regional_reservemargins",
     "technology_capacity_targets"}

\* configurations with every policy key (without and with a sector CO2
\* policy), with one key left out, and with BAU_mincapacities naming only a
\* carrier the network does not have
PolicyConfigs ==
    {NoConfig, Config(FALSE, FALSE, FALSE, TRUE, FALSE)}
    \cup {[Config(FALSE, FALSE, FALSE, TRUE, FALSE) EXCEPT !.electricity = @ \ {k}]
          : k \in PolicyKeys}
    \cup {[Config(FALSE, FALSE, FALSE, TRUE, FALSE) EXCEPT !.BAU_mincapacities = {"OCGT"}]}

\* link tables with the battery pair and a link that is not a battery
PolicyLinkTables ==
    {[l \in {<<"p1", "battery charger">>, <<"p1", "battery discharger">>,
             <<"p1", "pipeline">>} |->
        IF l = <<"p1", "pipeline">> THEN LinkRow(q) ELSE LinkRow(b)]
     : b \in BOOLEAN, q \in BOOLEAN}

\* one activated family per run
PolicyOpts ==
    {<<>>, <<T_RPS>>, <<T_REM>>, <<T_BAU>>, <<T_SAFE>>, <<T_SAFER>>, <<T_TCT>>,
     <<T_sector>>}

InitPolicy ==
    /\ opts \in PolicyOpts
    /\ config \in PolicyConfigs
    /\ n \in {[Network(g, l, lines) EXCEPT !.attached = TRUE, !.opts = opts,
                                           !.config = config] :
                g \in GeneratorTables, l \in PolicyLinkTables,
                lines \in {t \in LineTables : ~t["L1"].s_nom_extendable
                                              /\ ~t["L2"].s_nom_extendable}}
    /\ solving \in {[k \in {} |-> FALSE]}
    /\ snakemake \in PolicyTables
    /\ outcome = NoOutcome
    /\ trace = <<>>
    /\ solves = <<>>
    /\ ncalls = 0
    /\ args = NoArgs
    /\ result = NoResult

SpecPolicy == InitPolicy /\ [][Build]_vars

----------------------------------------------------------------------------
(* Properties of the policy-table families (specification SpecPolicy) *)

Built == outcome.state = "built"

\* the families compiled from a policy table with a horizon column
PolicyTableFamilies == {"TCT", "RPS", "REM", "SAFER", "sector_co2"}

\* the tables without the rows whose horizon is not among periods
RealizedRows(sm, periods) ==
    [sm EXCEPT
        !.portfolio_standards = SelectSeq(@, LAMBDA r : r.planning_horizon \in periods),
        !.rps_reeds = SelectSeq(@, LAMBDA r : r.t \in periods),
        !.ces_reeds = SelectSeq(@, LAMBDA r : r.planning_horizon \in periods),
        !.regional_Co2_limits = SelectSeq(@, LAMBDA r : r.planning_horizon \in periods),
        !.regional_prm = SelectSeq(@, LAMBDA r : r.planning_horizon \in periods),
        !.safer_reeds = SelectSeq(@, LAMBDA r : r.planning_horizon \in periods),
        !.technology_capacity_targets = SelectSeq(@, LAMBDA r : r.planning_horizon \in periods),
        !.co2_policy = SelectSeq(@, LAMBDA r : r.year \in periods)]

\* C14: the policy rows whose horizon is not an investment period of the
\* network register no constraint and never make the build raise, and the
\* build registers as many constraints as it does without those rows
C14_UnrealizedRowsInert ==
    Built
        => LET periods == Range(n.investment_periods)
               base == extra_functionality(n, RealizedRows(snakemake, periods), NewModel)
           IN /\ \A i \in DOMAIN n.model.cons :
                    n.model.cons[i].family \in PolicyTableFamilies
                        => n.model.cons[i].name.y \in periods
              /\ base.err = "" => n.model.err = ""
              /\ Len(n.model.cons) = Len(base.cons)

\* one of the index sets the expression was built over is empty
ZeroSized(expr) == \E i \in DOMAIN expr.operands : expr.operands[i] = {}

\* C15: no constraint is registered over zero-sized operands: a family or
\* policy row that finds no matching component registers nothing
C15_NoZeroSizedOperands ==
    Built => \A i \in DOMAIN n.model.cons : ~ZeroSized(n.model.cons[i].expr)

\* the region of the row resolves to no bus of the network
EmptyRegion(region_list) == get_region_buses(n, region_list) = {}

\* the tables without the policy rows whose region resolves to no bus
NonEmptyRegionRows(sm) ==
    [sm EXCEPT
        !.portfolio_standards = SelectSeq(@, LAMBDA r : ~EmptyRegion(r.region)),
        !.regional_Co2_limits = SelectSeq(@, LAMBDA r : ~EmptyRegion(r.regions)),
        !.regional_prm = SelectSeq(@, LAMBDA r : ~EmptyRegion(r.region)),
        !.technology_capacity_targets = SelectSeq(@, LAMBDA r : ~EmptyRegion(r.region))]

\* the constraint name of a portfolio standard row
RPSName(row) ==
    Name("GlobalConstraint-{a}_{y}_rps_limit", <<row.name>>, <<>>, row.planning_horizon, 0)

\* C16: a policy row whose region resolves to no bus registers nothing and
\* raises nothing in the capacity-target, portfolio-standard, regional-CO2
\* and regional-reserve-margin families, and the build ends as it does
\* without such rows, with as many constraints
C16_EmptyRegionSkipsRow ==
    Built
        => LET base == extra_functionality(n, NonEmptyRegionRows(snakemake), NewModel)
           IN /\ \A i \in DOMAIN snakemake.portfolio_standards :
                    EmptyRegion(snakemake.portfolio_standards[i].region)
                        => /\ RPSRow(n, snakemake.portfolio_standards[i], NewModel) = NewModel
                           /\ RPSName(snakemake.portfolio_standards[i]) \notin ConNames(n.model)
              /\ \A i \in DOMAIN snakemake.regional_Co2_limits :
                    EmptyRegion(snakemake.regional_Co2_limits[i].regions)
                        => REMRow(n, snakemake.regional_Co2_limits[i], NewModel) = NewModel
              /\ \A i \in DOMAIN snakemake.regional_prm :
                    EmptyRegion(snakemake.regional_prm[i].region)
                        => SAFERRow(n, snakemake.regional_prm[i], NewModel) = NewModel
              /\ \A i \in DOMAIN snakemake.technology_capacity_targets :
                    EmptyRegion(snakemake.technology_capacity_targets[i].region)
                        => TCTRow(n, i - 1, snakemake.technology_capacity_targets[i],
                                  NewModel) = NewModel
              /\ n.model.err = base.err
              /\ Len(n.model.cons) = Len(base.cons)

\* a portfolio standard build that met a row with an empty region and
\* registered the constraint of a row after it
C16_Witness ==
    /\ Built
    /\ n.model.err = ""
    /\ "RPS" \in Range(n.model.calls)
    /\ LET rows == PortfolioStandards(n, snakemake)
       IN \E i \in DOMAIN rows, j \in DOMAIN rows :
            /\ i < j
            /\ EmptyRegion(rows[i].region)
            /\ RPSName(rows[j]) \in ConNames(n.model)

\* the key of config["electricity"] that configures the family
KeyOf(family) ==
    CASE family = "RPS" -> "portfolio_standards"
      [] family = "REM" -> "regional_Co2_limits"
      [] family = "BAU" -> "BAU_mincapacities"
      [] family = "SAFE" -> "SAFE_reservemargin"
      [] family = "SAFER" -> "SAFE_regional_reservemargins"
      [] family = "TCT" -> "technology_capacity_targets"

\* C17: an activated optional family whose configuration key is absent is
\* skipped: it raises nothing, registers nothing, and the remaining
\* families of the build are still invoked
C17_AbsentConfigurationSkipped ==
    Built
        => \A family \in {"RPS", "REM", "BAU", "SAFE", "SAFER", "TCT"} :
            (Activated(family) /\ KeyOf(family) \notin n.config.electricity)
                => /\ n.model.err = ""
                   /\ \A i \in DOMAIN n.model.cons : n.model.cons[i].family # family
                   /\ {"battery", "land_use"} \subseteq FamiliesInvoked

\* the rows of the three portfolio standard tables as they are read: the
\* configured file, the ReEDS RPS file and the melted ReEDS CES file
RawPortfolioRows(sm) ==
    [i \in DOMAIN sm.portfolio_standards |->
        [name |-> sm.portfolio_standards[i].name, pct |-> sm.portfolio_standards[i].pct,
         planning_horizon |-> sm.portfolio_standards[i].planning_horizon]]
    \o [i \in DOMAIN sm.rps_reeds |->
        [name |-> sm.rps_reeds[i].st, pct |-> sm.rps_reeds[i].rps_all,
         planning_horizon |-> sm.rps_reeds[i].t]]
    \o [i \in DOMAIN sm.ces_reeds |->
        [name |-> sm.ces_reeds[i].st, pct |-> sm.ces_reeds[i].pct,
         planning_horizon |-> sm.ces_reeds[i].planning_horizon]]

RPSConstraints == {i \in DOMAIN n.model.cons : n.model.cons[i].family = "RPS"}

\* C18: a portfolio standard row with pct <= 0 produces no constraint: a
\* registered name belongs to a row with pct > 0, and there are no more
\* constraints than such rows
C18_NonPositivePctFiltered ==
    Built
        => LET raw == RawPortfolioRows(snakemake)
               positive == {i \in DOMAIN raw : raw[i].pct > 0}
           IN /\ \A i \in DOMAIN raw :
                    (raw[i].pct <= 0 /\ RPSName(raw[i]) \in ConNames(n.model))
                        => \E j \in positive : RPSName(raw[j]) = RPSName(raw[i])
              /\ Cardinality(RPSConstraints) <= Cardinality(positive)

\* a portfolio build with a configured row of pct <= 0 over a region that
\* has generators and a realized horizon, which registered another row
C18_Witness ==
    /\ Built
    /\ n.model.err = ""
    /\ RPSConstraints # {}
    /\ \E i \in DOMAIN snakemake.portfolio_standards :
        LET r == snakemake.portfolio_standards[i]
        IN /\ r.pct <= 0
           /\ r.planning_horizon \in snakemake.planning_horizons
           /\ \E g \in DOMAIN n.generators :
                n.generators[g].bus \in get_region_buses(n, r.region)
           /\ RPSName(r) \notin ConNames(n.model)

\* the load summed over the snapshots of a period and the loads at the buses
\* of a region, one (snapshot, load) pair at a time
SummedLoad(period, buses) ==
    LET pairs == {p \in (1..Len(n.snapshots)) \X DOMAIN n.loads :
                    /\ n.snapshots[p[1]].period = period
                    /\ n.loads[p[2]].bus \in buses}
    IN SumOver(pairs, [p \in pairs |-> n.loads_t.p_set[p[1]][p[2]]])

\* the constraint of a compiled portfolio standard row has the dispatch of
\* the eligible generators of the region on the left and pct times the load
\* of the region on the right
RPSConstraintOf(c, row) ==
    LET buses == get_region_buses(n, row.region)
    IN /\ c.name = RPSName(row)
       /\ c.expr.lhs = {g \in DOMAIN n.generators :
                            /\ n.generators[g].bus \in buses
                            /\ n.generators[g].carrier \in row.carrier}
       /\ c.expr.period = row.planning_horizon
       /\ c.expr.sense = ">="
       /\ c.expr.rhs = row.pct * SummedLoad(row.planning_horizon, buses)

\* C19: every registered portfolio standard constraint is, for a row of the
\* realized horizons with pct > 0, the dispatch of the generators in the
\* row's region and of an eligible carrier summed over the snapshots of the
\* horizon >= pct times the load at the buses of the region summed over the
\* same snapshots
C19_PortfolioStandardConstraint ==
    Built
        => \A i \in RPSConstraints :
            \E k \in DOMAIN PortfolioStandards(n, snakemake) :
                RPSConstraintOf(n.model.cons[i], PortfolioStandards(n, snakemake)[k])

\* a registered portfolio standard over some but not all generators of its
\* region and a positive load
C19_Witness ==
    /\ Built
    /\ n.model.err = ""
    /\ \E i \in RPSConstraints :
        /\ n.model.cons[i].expr.lhs # {}
        /\ n.model.cons[i].expr.rhs > 0
        /\ \E k \in DOMAIN PortfolioStandards(n, snakemake) :
            LET row == PortfolioStandards(n, snakemake)[k]
            IN /\ n.model.cons[i].name = RPSName(row)
               /\ \E g \in DOMAIN n.generators :
                    /\ n.generators[g].bus \in get_region_buses(n, row.region)
                    /\ g \notin n.model.cons[i].expr.lhs

\* the reserve margin families are invoked: the code in opts and an
\* extendable generator in the network
ReserveMarginInvoked(token) ==
    /\ InOpts(token, n.opts)
    /\ \E g \in DOMAIN n.generators : n.generators[g].p_nom_extendable

\* C20: an invoked SAFE with its margin configured registers the system-wide
\* reserve margin constraint, and an invoked SAFER registers the reserve
\* margin constraint of every row of a realized horizon whose region has
\* buses, and neither raises
C20_ReserveMarginRegistered ==
    Built
        => /\ (ReserveMarginInvoked(T_SAFE) /\ ~MissingKey(n.config, "SAFE_reservemargin"))
                => /\ n.model.err = ""
                   /\ Static("safe_mintotalcap") \in ConNames(n.model)
           /\ (ReserveMarginInvoked(T_SAFER)
               /\ ~MissingKey(n.config, "SAFE_regional_reservemargins"))
                => \A k \in DOMAIN RegionalPRM(n, snakemake) :
                    LET prm == RegionalPRM(n, snakemake)[k]
                    IN get_region_buses(n, prm.region) # {}
                        => /\ n.model.err = ""
                           /\ Name("GlobalConstraint-{a}_{y}_PRM", <<prm.name>>, <<>>,
                                   prm.planning_horizon, 0) \in ConNames(n.model)

----------------------------------------------------------------------------
(* add_battery_constraints alone, over networks with a battery at each     *)
(* bus: every order of the four links and every choice of extendable ones  *)

\* the discharger at p1 has efficiency 90 %, the one at p2 80 %
BatteryLinkTables ==
    {[l \in {<<"p1", "battery charger">>, <<"p1", "battery discharger">>,
             <<"p2", "battery charger">>, <<"p2", "battery discharger">>} |->
        [LinkRow(e[l]) EXCEPT !.efficiency = IF l[1] = "p1" THEN 90 ELSE 80]]
     : e \in [{<<"p1", "battery charger">>, <<"p1", "battery discharger">>,
               <<"p2", "battery charger">>, <<"p2", "battery discharger">>} -> BOOLEAN]}

InitBattery ==
    /\ n \in {[Network(g, l, lines) EXCEPT !.links = t, !.links_index = order] :
                g \in {x \in GeneratorTables : x["g1"].p_nom_extendable /\ x["g2"].p_nom_extendable},
                l \in {x \in LinkTables : x[<<"p1", "battery charger">>].p_nom_extendable},
                lines \in {x \in LineTables : x["L1"].s_nom_extendable},
                t \in BatteryLinkTables,
                order \in IndexOrders(CHOOSE x \in BatteryLinkTables : TRUE)}
    /\ args = [helper |-> "add_battery_constraints"]
    /\ result = NoResult
    /\ config = NoConfig
    /\ solving \in {[k \in {} |-> FALSE]}
    /\ opts = <<>>
    /\ snakemake = Snakemake
    /\ outcome = NoOutcome
    /\ trace = <<>>
    /\ solves = <<>>
    /\ ncalls = 0

\* one call of add_battery_constraints(n) on a fresh model
BatteryConstraints ==
    /\ args.helper = "add_battery_constraints"
    /\ ~result.called
    /\ result' = [called |-> TRUE, value |-> add_battery_constraints(n, NewModel)]
    /\ UNCHANGED <<n, config, solving, opts, snakemake, outcome, trace, solves,
                   ncalls, args>>

SpecBattery == InitBattery /\ [][BatteryConstraints]_vars

----------------------------------------------------------------------------
(* Properties of the storage symmetry family (specification SpecBattery) *)

BatteryBuilt == args.helper = "add_battery_constraints" /\ result.called

\* the buses whose battery has an extendable charger and an extendable
\* discharger
PairedBatteries ==
    {b \in DOMAIN n.buses :
        /\ <<b, "battery charger">> \in DOMAIN n.links
        /\ <<b, "battery discharger">> \in DOMAIN n.links
        /\ n.links[<<b, "battery charger">>].p_nom_extendable
        /\ n.links[<<b, "battery discharger">>].p_nom_extendable}

\* C21: for every battery with an extendable charger and an extendable
\* discharger the registered equality has the term charger capacity =
\* efficiency of that battery's discharger x capacity of that discharger
C21_ChargerPairedWithOwnDischarger ==
    BatteryBuilt
        => \A b \in PairedBatteries :
            /\ Len(result.value.cons) = 1
            /\ [charger |-> <<b, "battery charger">>,
                discharger |-> <<b, "battery discharger">>,
                eff |-> n.links[<<b, "battery discharger">>].efficiency]
                    \in result.value.cons[1].expr.terms

\* the same, for link tables whose chargers and dischargers are all
\* extendable and held in the same order of batteries
AlignedBatteries ==
    LET chargers == SelectSeq(n.links_index, LAMBDA l : NameContains(l, "battery charger"))
        dischargers == SelectSeq(n.links_index, LAMBDA l : NameContains(l, "battery discharger"))
    IN /\ \A l \in DOMAIN n.links : n.links[l].p_nom_extendable
       /\ \A i \in 1..Len(chargers) : chargers[i][1] = dischargers[i][1]

C21_AlignedPairs ==
    (BatteryBuilt /\ AlignedBatteries)
        => \A b \in PairedBatteries :
            [charger |-> <<b, "battery charger">>,
             discharger |-> <<b, "battery discharger">>,
             eff |-> n.links[<<b, "battery discharger">>].efficiency]
                \in result.value.cons[1].expr.terms

\* two batteries, all links extendable, the dischargers held in the other
\* order than the chargers
C21_Misordered ==
    /\ BatteryBuilt
    /\ \A l \in DOMAIN n.links : n.links[l].p_nom_extendable
    /\ ~AlignedBatteries
    /\ [charger |-> <<"p1", "battery charger">>,
        discharger |-> <<"p2", "battery discharger">>, eff |-> 80]
            \in result.value.cons[1].expr.terms

----------------------------------------------------------------------------
(* Constraint names of one build (specification SpecEF) *)

\* C22: the constraints registered during one run of extra_functionality
\* have pairwise distinct names, and no registration is refused because
\* its name is already assigned
C22_DistinctConstraintNames ==
    Built
        => /\ n.model.err # DuplicateError
           /\ \A i, j \in DOMAIN n.model.cons :
                n.model.cons[i].name = n.model.cons[j].name => i = j

----------------------------------------------------------------------------
(* The iteration bounds of the iterative strategy (specification Spec) *)

IterativeCalled == outcome.state # "none" /\ outcome.strategy = "iterative"

\* C23: when the iterative strategy is selected, min_iterations and
\* max_iterations are passed as the configured integers (4 and 6 when not
\* configured), and the solve makes no more builds than the maximum
C23_IterationBoundsPassed ==
    IterativeCalled
        => /\ outcome.kwargs.min_iterations.kind = "value"
           /\ outcome.kwargs.min_iterations.v = <<Get(solving, "min_iterations", 4)>>
           /\ outcome.kwargs.max_iterations.kind = "value"
           /\ outcome.kwargs.max_iterations.v = <<Get(solving, "max_iterations", 6)>>
           /\ Len(solves) <= Get(solving, "max_iterations", 6)

\* what the code passes: one-element tuples holding the configured counts
C23_IterationBoundsAreTuples ==
    IterativeCalled
        => /\ outcome.kwargs.min_iterations = Passed("tuple", Get(solving, "min_iterations", 4))
           /\ outcome.kwargs.max_iterations = Passed("tuple", Get(solving, "max_iterations", 6))

\* an iterative solve with both counts configured
C23_Configured ==
    /\ IterativeCalled
    /\ "min_iterations" \in DOMAIN solving
    /\ outcome.kwargs.max_iterations = Passed("tuple", 2)

----------------------------------------------------------------------------
(* Attachment of the scenario context (specification Spec) *)

\* solve_network has been called
SolveCalled == outcome.state # "none"

\* the position of an entry in the trace, 0 when it is not there
PositionIn(t, e) ==
    IF \E i \in 1..Len(t) : t[i] = e THEN CHOOSE i \in 1..Len(t) : t[i] = e ELSE 0

\* C24: solve_network attaches config and opts to the network before it
\* invokes the backend of any strategy, and the model the backend builds is
\* the one extra_functionality compiles from the config and the tokens of
\* this call
C24_AttachedBeforeSolve ==
    SolveCalled
        => /\ n.attached
           /\ n.config = config
           /\ n.opts = opts
           /\ PositionIn(trace, "attach") > 0
           /\ PositionIn(trace, "attach") < PositionIn(trace, outcome.strategy)
           /\ n.model = extra_functionality(Attach(n, config, opts), snakemake, NewModel)

\* a solve of each strategy whose build called a family activated by a token
\* of this call, under a configuration other than the network's initial one
C24_Witness ==
    /\ SolveCalled
    /\ config # NoConfig
    /\ opts # <<>>
    /\ n.model.calls # <<>>
    /\ solves # <<>>

----------------------------------------------------------------------------
(* Order of the families in one build (specification SpecEF) *)

\* the order the families are to be invoked in
FamilyOrder ==
    <<"RPS", "REM", "BAU", "SAFE", "SAFER", "TCT", "operational_reserve",
      "interface_limits", "heat_pump", "gshp_ratio", "sector_co2", "natural_gas",
      "EQ", "battery", "land_use">>

\* C25: the families invoked in one build are invoked in the fixed order
\* RPS, regional CO2, BAU, SAFE, SAFER, TCT, operational reserve, interface
\* limits, heat pump, gshp ratio, sector CO2, natural gas, equity, storage
\* symmetry, land use, whatever the network data and the order of the tokens
C25_FixedFamilyOrder ==
    Built
        => \A i, j \in DOMAIN n.model.calls :
            i < j => /\ PositionIn(FamilyOrder, n.model.calls[i]) > 0
                     /\ PositionIn(FamilyOrder, n.model.calls[i])
                            <= PositionIn(FamilyOrder, n.model.calls[j])
                     /\ (n.model.calls[i] = n.model.calls[j] => n.model.calls[i] = "EQ")

\* a build whose tokens name the capacity targets before the business-as-
\* usual minimum, and which invoked both and the unconditional families
C25_Witness ==
    /\ Built
    /\ opts = <<T_TCT, T_BAU>>
    /\ Len(n.model.calls) >= 4
    /\ n.model.calls[1] = "BAU"
    /\ n.model.calls[2] = "TCT"

----------------------------------------------------------------------------
(* add_technology_capacity_target_constraints alone, over networks with    *)
(* generators and storage units of several vintages and one target row     *)

TCTUnit(bus, carrier, ext, p_nom, build_year) ==
    [Gen(bus, carrier, ext, "") EXCEPT !.p_nom = p_nom, !.build_year = build_year]

\* two solar units, each extendable or not, the second built in 2020 or 2035,
\* and an existing gas unit
TCTGeneratorTables ==
    {[g \in {"g1", "g2", "g3"} |->
        CASE g = "g1" -> TCTUnit("p1", "solar", e1, 10, 2020)
          [] g = "g2" -> TCTUnit("p2", "solar", e2, 20, y2)
          [] g = "g3" -> TCTUnit("p1", "CCGT", FALSE, 40, 2020)]
     : e1 \in BOOLEAN, e2 \in BOOLEAN, y2 \in {2020, 2035}}

\* no storage unit, or a battery at each bus, the first extendable or not
TCTStorageTables ==
    {NoStorageUnits}
    \cup {[u \in {"u1", "u2"} |->
            IF u = "u1" THEN TCTUnit("p1", "battery", e, 7, 2020)
            ELSE TCTUnit("p2", "battery", FALSE, 3, 2020)]
          : e \in BOOLEAN}

\* one row of the capacity target table
TCTTargets ==
    [planning_horizon : {Y1, Y2, Y3},
     region : {{"all"}, {"western"}, {"NY"}},
     carrier : {{"solar"}, {"solar", "battery"}, {"battery"}},
     min_nan : BOOLEAN, min : {50}, max_nan : BOOLEAN, max : {90}]

InitTCT ==
    /\ n \in {[Network(g, l, lines) EXCEPT !.generators = t, !.storage_units = u] :
                g \in {x \in GeneratorTables : x["g1"].p_nom_extendable /\ x["g2"].p_nom_extendable},
                l \in {x \in LinkTables : x[<<"p1", "battery charger">>].p_nom_extendable},
                lines \in {x \in LineTables : x["L1"].s_nom_extendable},
                t \in TCTGeneratorTables, u \in TCTStorageTables}
    /\ snakemake \in {[Snakemake EXCEPT !.technology_capacity_targets = <<target>>] :
                        target \in TCTTargets}
    /\ args = [helper |-> "add_technology_capacity_target_constraints"]
    /\ result = NoResult
    /\ config = NoConfig
    /\ solving \in {[k \in {} |-> FALSE]}
    /\ opts = <<T_TCT>>
    /\ outcome = NoOutcome
    /\ trace = <<>>
    /\ solves = <<>>
    /\ ncalls = 0

\* one call of add_technology_capacity_target_constraints(n, config) on a
\* fresh model
CapacityTargets ==
    /\ args.helper = "add_technology_capacity_target_constraints"
    /\ ~result.called
    /\ result' = [called |-> TRUE,
                  value |-> add_technology_capacity_target_constraints(
                                n, config, snakemake, NewModel)]
    /\ UNCHANGED <<n, config, solving, opts, snakemake, outcome, trace, solves,
                   ncalls, args>>

SpecTCT == InitTCT /\ [][CapacityTargets]_vars

----------------------------------------------------------------------------
(* Properties of the capacity targets (specification SpecTCT) *)

TCTBuilt == args.helper = "add_technology_capacity_target_constraints" /\ result.called

\* the target row of the run
Target == snakemake.technology_capacity_targets[1]

\* the units of a table that are active in the target's horizon, of one of
\* its carriers and at a bus of its region, with the given extendability
TargetUnits(table, ext) ==
    {c \in DOMAIN table :
        /\ table[c].build_year <= Target.planning_horizon.v
        /\ Target.planning_horizon.v < table[c].build_year + table[c].lifetime
        /\ table[c].carrier \in Target.carrier
        /\ table[c].bus \in get_region_buses(n, Target.region)
        /\ table[c].p_nom_extendable = ext}

\* the capacity already there: p_nom of the non-extendable units
ExistingCapacity ==
    SumOver(TargetUnits(n.generators, FALSE),
            [g \in TargetUnits(n.generators, FALSE) |-> n.generators[g].p_nom])
    + SumOver(TargetUnits(n.storage_units, FALSE),
              [u \in TargetUnits(n.storage_units, FALSE) |-> n.storage_units[u].p_nom])

\* the row is compiled: its horizon is realized, its region has buses and it
\* selects an extendable unit
TargetCompiled ==
    /\ Target.planning_horizon \in snakemake.planning_horizons
    /\ get_region_buses(n, Target.region) # {}
    /\ TargetUnits(n.generators, TRUE) \cup TargetUnits(n.storage_units, TRUE) # {}

\* the constraint bounds the selected extendable capacity by the bound less
\* the existing capacity
TargetConstraint(c, sense, bound) ==
    /\ c.expr.lhs_gens = TargetUnits(n.generators, TRUE)
    /\ c.expr.lhs_storage = TargetUnits(n.storage_units, TRUE)
    /\ c.expr.sense = sense
    /\ c.expr.rhs = bound - ExistingCapacity

TCTNamed(fmt) ==
    {i \in DOMAIN result.value.cons : result.value.cons[i].name.fmt = fmt}

\* C26: a compiled capacity target registers the extendable generator and
\* storage capacity of the row >= min - existing capacity when min is given
\* and <= max - existing capacity when max is given, and nothing for a
\* missing bound
C26_CapacityTargetBounds ==
    TCTBuilt
        => /\ result.value.err = ""
           /\ Cardinality(TCTNamed("GlobalConstraint-{i}_{y}_min"))
                = (IF TargetCompiled /\ ~Target.min_nan THEN 1 ELSE 0)
           /\ Cardinality(TCTNamed("GlobalConstraint-{i}_{y}_max"))
                = (IF TargetCompiled /\ ~Target.max_nan THEN 1 ELSE 0)
           /\ Len(result.value.cons)
                = Cardinality(TCTNamed("GlobalConstraint-{i}_{y}_min"))
                  + Cardinality(TCTNamed("GlobalConstraint-{i}_{y}_max"))
           /\ \A i \in TCTNamed("GlobalConstraint-{i}_{y}_min") :
                TargetConstraint(result.value.cons[i], ">=", Target.min)
           /\ \A i \in TCTNamed("GlobalConstraint-{i}_{y}_max") :
                TargetConstraint(result.value.cons[i], "<=", Target.max)

\* a compiled row with both bounds over a generator and a storage unit, with
\* existing capacity of both kinds
C26_Witness ==
    /\ TCTBuilt
    /\ Len(result.value.cons) = 2
    /\ result.value.cons[1].expr.lhs_gens # {}
    /\ result.value.cons[1].expr.lhs_storage # {}
    /\ TargetUnits(n.generators, FALSE) # {}
    /\ TargetUnits(n.storage_units, FALSE) # {}
    /\ result.value.cons[1].expr.rhs < Target.min

\* a compiled row with only a maximum
C26_WitnessMissingMin ==
    /\ TCTBuilt
    /\ TargetCompiled
    /\ Target.min_nan
    /\ Len(result.value.cons) = 1

\* the units of a table that are active in the target's horizon, of one of
\* its carriers and at a bus of its region
ActiveTargetUnits(table) ==
    {c \in DOMAIN table :
        /\ get_active_assets(table[c], Target.planning_horizon)
        /\ table[c].carrier \in Target.carrier
        /\ table[c].bus \in get_region_buses(n, Target.region)}

\* C27: in every capacity target constraint the extendable units of the
\* left-hand side and the existing units of the right-hand side are disjoint,
\* differ only in extendability and together are the active units of the
\* row's carriers in the row's region, for generators and for storage units
C27_GroupingConsistency ==
    TCTBuilt
        => \A i \in DOMAIN result.value.cons :
            LET expr == result.value.cons[i].expr
            IN /\ expr.lhs_gens \cap expr.existing_gens = {}
               /\ expr.lhs_gens \cup expr.existing_gens = ActiveTargetUnits(n.generators)
               /\ \A g \in expr.lhs_gens : n.generators[g].p_nom_extendable
               /\ \A g \in expr.existing_gens : ~n.generators[g].p_nom_extendable
               /\ expr.lhs_storage \cap expr.existing_storage = {}
               /\ expr.lhs_storage \cup expr.existing_storage
                    = ActiveTargetUnits(n.storage_units)
               /\ \A u \in expr.lhs_storage : n.storage_units[u].p_nom_extendable
               /\ \A u \in expr.existing_storage : ~n.storage_units[u].p_nom_extendable

\* a constraint over a region that is not the whole network, with existing
\* units inside and outside the region and an inactive unit of the carrier
C27_Witness ==
    /\ TCTBuilt
    /\ result.value.cons # <<>>
    /\ result.value.cons[1].expr.existing_storage = {}
    /\ result.value.cons[1].expr.lhs_storage # {}
    /\ \E u \in DOMAIN n.storage_units :
        ~n.storage_units[u].p_nom_extendable /\ n.storage_units[u].carrier \in Target.carrier
    /\ get_region_buses(n, Target.region) # DOMAIN n.buses

----------------------------------------------------------------------------
(* Sector CO2 caps (specification SpecPolicy) *)

\* the sector CO2 family is invoked
SectorCO2Invoked == Built /\ InOpts(T_sector, n.opts) /\ n.config.co2_policy

\* the emission stores a policy row selects
EmissionStores(row) ==
    {x \in DOMAIN n.stores :
        /\ x[3] \in {"-co2", "-ch4"}
        /\ row.state = "USA" \/ x[1] = row.state
        /\ row.sector = "all" \/ x[2] = row.sector}

\* the last snapshot of a year
FinalSnapshot(year) ==
    CHOOSE i \in DOMAIN n.snapshots :
        /\ n.snapshots[i].period = year
        /\ \A k \in DOMAIN n.snapshots : n.snapshots[k].period = year => k <= i

\* the constraint caps the stores of the row at the final snapshot of its year
SectorCap(c, row) ==
    /\ c.family = "sector_co2"
    /\ c.name.y = row.year
    /\ c.expr.stores = EmissionStores(row)
    /\ c.expr.snapshot = FinalSnapshot(row.year)
    /\ c.expr.sense = "<="
    /\ c.expr.rhs = row.co2_limit_mmt * 1000000

\* C28: for every sector CO2 policy row whose year is an investment period
\* exactly one constraint is registered, which bounds from above by
\* co2_limit_mmt x 1e6 the level at the final snapshot of the year of the
\* "-co2" and "-ch4" stores of the row's state and sector
C28_SectorCapPerRow ==
    SectorCO2Invoked
        => /\ \A k \in DOMAIN snakemake.co2_policy :
                snakemake.co2_policy[k].year \in Range(n.investment_periods)
                    => \E i \in DOMAIN n.model.cons :
                        SectorCap(n.model.cons[i], snakemake.co2_policy[k])
           /\ Cardinality({i \in DOMAIN n.model.cons : n.model.cons[i].family = "sector_co2"})
                = Cardinality({k \in DOMAIN snakemake.co2_policy :
                                snakemake.co2_policy[k].year \in Range(n.investment_periods)})

\* the same for the builds that the sector CO2 family does not end with an
\* exception
C28_SectorCapPerRowOfCompletedBuild ==
    (SectorCO2Invoked /\ n.model.err = "") => C28_SectorCapPerRow

\* a completed build with a sector row of a state and a sector row of the
\* whole country
C28_Completed ==
    /\ SectorCO2Invoked
    /\ n.model.err = ""
    /\ \E i, j \in DOMAIN n.model.cons :
        /\ n.model.cons[i].family = "sector_co2"
        /\ n.model.cons[j].family = "sector_co2"
        /\ n.model.cons[i].expr.stores = {<<"CA", "res", "-co2">>, <<"CA", "res", "-ch4">>}
        /\ n.model.cons[j].expr.stores = {<<"CA", "trn", "-co2">>, <<"TX", "trn", "-ch4">>}

----------------------------------------------------------------------------
(* add_ng_import_export_limits alone, over networks with gas export links  *)
(* and export tables with and without an entry for them                    *)

GasExportLinks == {<<"CA OR", "gas export">>, <<"CA NV", "gas export">>,
                   <<"TX MX", "gas export">>}

\* the battery pair and some of the gas export links
GasLinkTables ==
    {[l \in {<<"p1", "battery charger">>, <<"p1", "battery discharger">>} \cup gas |->
        IF l \in gas THEN [LinkRow(FALSE) EXCEPT !.carrier = "gas export"]
        ELSE LinkRow(TRUE)]
     : gas \in SUBSET GasExportLinks}

\* the domestic exports after formatting: link -> rhs
DomesticExports ==
    {<<>>,
     <<[link |-> <<"CA OR", "gas export">>, rhs |-> 100]>>,
     <<[link |-> <<"CA OR", "gas export">>, rhs |-> 100],
       [link |-> <<"WA OR", "gas export">>, rhs |-> 50]>>}

\* the international exports after formatting: link -> rhs
InternationalExports ==
    {<<>>,
     <<[link |-> <<"TX MX", "gas export">>, rhs |-> 70]>>,
     <<[link |-> <<"WA CN", "gas export">>, rhs |-> 20]>>}

InitGas ==
    /\ n \in {[Network(g, l, lines) EXCEPT !.links = t, !.links_index = LinksIndex(t),
                                           !.investment_periods = periods] :
                g \in {x \in GeneratorTables : x["g1"].p_nom_extendable /\ x["g2"].p_nom_extendable},
                l \in {x \in LinkTables : x[<<"p1", "battery charger">>].p_nom_extendable},
                lines \in {x \in LineTables : x["L1"].s_nom_extendable},
                t \in GasLinkTables,
                periods \in {<<Y1>>, <<Y1, Y2>>}}
    /\ snakemake \in {[Snakemake EXCEPT !.ng_domestic_exports = d,
                                        !.ng_international_exports = i] :
                        d \in DomesticExports, i \in InternationalExports}
    /\ args = [helper |-> "add_ng_import_export_limits"]
    /\ result = NoResult
    /\ config = Config(FALSE, FALSE, FALSE, FALSE, TRUE)
    /\ solving \in {[k \in {} |-> FALSE]}
    /\ opts = <<T_sector>>
    /\ outcome = NoOutcome
    /\ trace = <<>>
    /\ solves = <<>>
    /\ ncalls = 0

\* one call of add_ng_import_export_limits(n, config) on a fresh model
GasLimits ==
    /\ args.helper = "add_ng_import_export_limits"
    /\ ~result.called
    /\ result' = [called |-> TRUE,
                  value |-> add_ng_import_export_limits(n, config, snakemake, NewModel)]
    /\ UNCHANGED <<n, config, solving, opts, snakemake, outcome, trace, solves,
                   ncalls, args>>

SpecGas == InitGas /\ [][GasLimits]_vars

----------------------------------------------------------------------------
(* Properties of the natural gas export limits (specification SpecGas) *)

GasBuilt == args.helper = "add_ng_import_export_limits" /\ result.called

\* the entries of the two export tables for the gas export links of the network
ExportEntries ==
    {e \in Range(snakemake.ng_domestic_exports) \cup Range(snakemake.ng_international_exports) :
        /\ e.link \in DOMAIN n.links
        /\ n.links[e.link].carrier = "gas export"}

\* the constraint relates the weighted flow of the link over the year to the
\* limit of the table with the given sense
ExportConstraint(c, e, year, sense) ==
    /\ c.family = "natural_gas"
    /\ c.expr.link = e.link
    /\ c.expr.year = year
    /\ c.expr.weighted
    /\ c.expr.sense = sense
    /\ c.expr.rhs = e.rhs

\* every entry has its constraint of the given sense in every investment
\* period, and there are no other constraints
ExportLimits(sense) ==
    /\ \A e \in ExportEntries : \A year \in Range(n.investment_periods) :
        \E i \in DOMAIN result.value.cons : ExportConstraint(result.value.cons[i], e, year, sense)
    /\ Len(result.value.cons) = Cardinality(ExportEntries) * Len(n.investment_periods)

\* C29: for every investment period and every gas export link with an entry
\* in the export table a constraint bounds the link's weighted flow over the
\* year from above by the table's limit; links without an entry get none
C29_ExportBoundedFromAbove == GasBuilt => ExportLimits("<=")

\* what the code registers: the yearly export is bounded from below
C29_ExportBoundedFromBelow == GasBuilt => ExportLimits(">=")

\* two investment periods, a link with a domestic entry, a link with an
\* international entry and a link without an entry
C29_Registered ==
    /\ GasBuilt
    /\ Len(result.value.cons) = 4
    /\ <<"CA NV", "gas export">> \in DOMAIN n.links

----------------------------------------------------------------------------
(* Repeated calls of solve_network (specification Spec) *)

\* C30: a call of solve_network leaves the solving mapping as it was given,
\* and a second call with the same mapping selects the strategy of the first
C30_SolvingLeftUnchanged ==
    [][/\ solving' = solving
       /\ ncalls = 1 => outcome'.strategy = outcome.strategy]_vars

\* what the code does: the call removes rolling_horizon and skip_iterations
\* from the mapping and leaves its other entries
C30_SolvingPopped ==
    [][solving' = [k \in DOMAIN solving \ {"rolling_horizon", "skip_iterations"}
                    |-> solving[k]]]_vars

\* the second call selects the strategy of the first
C30_SameStrategyTwice ==
    [][ncalls = 1 => outcome'.strategy = outcome.strategy]_vars

\* a second call, made on the emptied mapping, that does not select the
\* rolling horizon
C30_SecondCallDiffers ==
    /\ ncalls = 2
    /\ outcome.strategy # "rolling_horizon"
    /\ trace # <<>>
    /\ solving = [k \in {} |-> FALSE]

====
